---- MODULE Spec2Model ----
(***************************************************************************)
(* Quiz editor ("JSON Theme Maker") and its database integration.          *)
(*                                                                         *)
(* Two editor classes are modelled, QuizEditorApp and                      *)
(* EnhancedQuizEditorApp; the variable app says which one is running.      *)
(* Every GUI callback is one action.  Python values are modelled as        *)
(* follows:                                                                *)
(*   - a str is a sequence of tokens (a token is one character or one      *)
(*     fixed word); whitespace tokens are " " and "\n";                    *)
(*   - a dict is a record whose DOMAIN is the set of its keys;             *)
(*   - a list is a sequence;                                               *)
(*   - a value whose Python type matters (int / str / None) is a record    *)
(*     [t |-> type, v |-> number].                                         *)
(***************************************************************************)
EXTENDS Integers, Sequences, FiniteSets, TLC

VARIABLES
    app,               \* class of the running editor
    CONFIG_AVAILABLE,  \* module flag of the enhanced editor
    self,              \* the editor object: its attributes and widgets
    files,             \* the file system: path -> content
    messagebox,        \* the dialog the last callback showed last
    db                 \* the DatabaseIntegration object and its database

vars == <<app, CONFIG_AVAILABLE, self, files, messagebox, db>>

-----------------------------------------------------------------------------
(* Bounds of the model *)

\* most questions a document may hold before add / duplicate / merge stop
MaxQuestions == 2

\* most option entries the form may hold before add_option stops
MaxOptions == 3

-----------------------------------------------------------------------------
(* Python values *)

None == "None"

PyInt(n) == [t |-> "int", v |-> n]
PyStr(n) == [t |-> "str", v |-> n]
PyNone == [t |-> "None", v |-> 0]

\* str(idx) for an index, int(s) for a string of digits
str(x) == PyStr(x.v)
int(x) == PyInt(x.v)

Whitespace == {" ", "\n"}

RECURSIVE lstrip(_)
lstrip(s) == IF s # <<>> /\ Head(s) \in Whitespace THEN lstrip(Tail(s)) ELSE s

RECURSIVE rstrip(_)
rstrip(s) ==
    IF s # <<>> /\ s[Len(s)] \in Whitespace THEN rstrip(SubSeq(s, 1, Len(s) - 1)) ELSE s

\* str.strip()
strip(s) == rstrip(lstrip(s))

\* tk.Text.get(1.0, tk.END): the content followed by the trailing newline
Text_get(content) == content \o <<"\n">>

Range(s) == {s[i] : i \in 1..Len(s)}

Digits == <<"1", "2", "3", "4", "5", "6", "7", "8", "9">>

\* f"Вариант {n}"
OptionLabel(n) == <<"Variant", " ", Digits[n]>>

IsList(d) == "items" \in DOMAIN d
IsDict(d) == ~IsList(d)

\* Python's  key in d  for a dict (key lookup) or a list (element lookup)
PyIn(key, d) == IF IsList(d) THEN key \in Range(d.items) ELSE key \in DOMAIN d

\* d["questions"] succeeds
HasQuestions(d) == IsDict(d) /\ "questions" \in DOMAIN d
HasTopic(d) == IsDict(d) /\ "topic" \in DOMAIN d

EmptyDocument ==
    [topic |-> [id |-> 1, name |-> <<>>, description |-> <<>>], questions |-> <<>>]

-----------------------------------------------------------------------------
(* json.dump / json.load *)

\* an encoder that writes a string without its quotes, so that a string of
\* digits is read back as a number
json_dump_unquoted(x) ==
    [t |-> CASE x.t = "None" -> "null" [] OTHER -> "number", v |-> x.v]

\* one scalar: int -> number, str -> string, None -> null
json_dump_scalar(x) ==
    [t |-> CASE x.t = "int" -> "number" [] x.t = "str" -> "string" [] OTHER -> "null",
     v |-> x.v]

json_load_scalar(x) ==
    [t |-> CASE x.t = "number" -> "int" [] x.t = "string" -> "str" [] OTHER -> "None",
     v |-> x.v]

json_dump_question(q) ==
    [k \in DOMAIN q |->
        CASE k = "correct_answer" ->
                [i \in 1..Len(q.correct_answer) |-> json_dump_scalar(q.correct_answer[i])]
          [] k = "media_url" -> json_dump_scalar(q.media_url)
          [] OTHER -> q[k]]

json_load_question(q) ==
    [k \in DOMAIN q |->
        CASE k = "correct_answer" ->
                [i \in 1..Len(q.correct_answer) |-> json_load_scalar(q.correct_answer[i])]
          [] k = "media_url" -> json_load_scalar(q.media_url)
          [] OTHER -> q[k]]

\* json.dump(self.data, f, ensure_ascii=False, indent=2): the JSON text written
json_dump(d) ==
    IF IsList(d) THEN d
    ELSE [k \in DOMAIN d |->
            IF k = "questions"
            THEN [i \in 1..Len(d.questions) |-> json_dump_question(d.questions[i])]
            ELSE d[k]]

\* json.load(f) of a file that holds valid JSON
json_load(j) ==
    IF IsList(j) THEN j
    ELSE [k \in DOMAIN j |->
            IF k = "questions"
            THEN [i \in 1..Len(j.questions) |-> json_load_question(j.questions[i])]
            ELSE j[k]]

-----------------------------------------------------------------------------
(* The file system *)

Absent == [kind |-> "absent"]
InvalidJson == [kind |-> "invalid"]
JsonFile(j) == [kind |-> "json", value |-> j]

\* JSON text of a well-formed question written by somebody else: a sequence
\* question whose answers are strings, with "media_url": null
ExternalQuestion ==
    [id |-> 1, text |-> <<"Q">>, options |-> <<OptionLabel(1), OptionLabel(2)>>,
     correct_answer |-> <<[t |-> "string", v |-> 1], [t |-> "string", v |-> 0]>>,
     question_type |-> "sequence", difficulty |-> 2, explanation |-> <<>>,
     media_url |-> [t |-> "null", v |-> 0]]

ExternalTopic == [id |-> 7, name |-> <<"T">>, description |-> <<>>]

\* the files on disk when the editor starts
InitialFiles ==
    [a |-> Absent,
     b |-> JsonFile([topic |-> ExternalTopic, questions |-> <<ExternalQuestion>>]),
     c |-> JsonFile([topic |-> ExternalTopic]),
     d |-> JsonFile([items |-> <<"topic", "questions">>]),
     e |-> InvalidJson]

Paths == DOMAIN InitialFiles

\* the path the save dialog offers
SavePath == "a"

\* the files the editor may write; the others are read-only
WritablePaths == {"a"}

-----------------------------------------------------------------------------
(* The editor object *)

QuestionTypes == {"single", "multiple", "sequence"}

\* media_url / image_path values: None, or the path string number v, where
\* string 0 is the empty string ""
NoImage == [t |-> "str", v |-> 0]

\* bool(x) of a media_url / image_path value
Truthy(x) == x.t = "str" /\ x.v # 0

\* dict.get(key, default)
Get(d, key, default) == IF key \in DOMAIN d THEN d[key] ELSE default

\* the attributes and widgets after __init__
NewEditor ==
    [data |-> EmptyDocument,
     current_file_path |-> None,
     current_question_index |-> -1,
     unsaved_changes |-> FALSE,         \* enhanced editor only
     destroyed |-> FALSE,               \* root.destroy() was called
     questions_list |-> {},             \* iids of the rows of the Treeview
     question_text |-> <<>>,
     question_type |-> "single",
     question_difficulty |-> 1,
     question_explanation |-> <<>>,
     options_list |-> <<>>,             \* text of each option Entry
     image_path |-> PyNone,
     temp_image_path |-> PyNone,
     \* QuizEditorApp: the answers tab
     answers_shown |-> "none",          \* kind of widgets in answers_frame
     options_shown |-> 0,               \* len(options) those widgets were built for
     has_answer_vars |-> FALSE,         \* hasattr(self, "answer_vars")
     answer_vars |-> <<>>,
     has_sequence_order |-> FALSE,      \* hasattr(self, "sequence_order")
     sequence_order |-> <<>>,
     \* EnhancedQuizEditorApp: the answers tab
     has_correct_answer_var |-> FALSE,
     correct_answer_var |-> 0,
     has_sequence_entry |-> FALSE,
     sequence_entry |-> <<>>]           \* the numbers typed, comma separated

\* self.data["questions"][index] succeeds
ValidIndex(s, index) ==
    HasQuestions(s.data) /\ index >= 0 /\ index < Len(s.data.questions)

\* a del that always removes the first element
DeleteFirst(questions, index) == Tail(questions)

\* del questions[index]
DeleteAt(questions, index) ==
    SubSeq(questions, 1, index) \o SubSeq(questions, index + 2, Len(questions))

\* the rows update_questions_list inserts (iid = str(i)), no filter set
update_questions_list(d) == 0..(Len(d.questions) - 1)

-----------------------------------------------------------------------------
(* What a callback leaves behind *)

\* a tkinter.messagebox call: the function called, and for showinfo the message
\* (given here in a word or two); the text of an error or a warning, which may
\* carry str(e), is not kept
Dialog(kind, message) ==
    [kind |-> kind, message |-> IF kind = "showinfo" THEN message ELSE ""]

\* the callback showed no dialog (an exception that nothing catches is only
\* reported on stderr by Tk, the attributes stay as they were when it was raised)
NoDialog == Dialog("none", "")

\* a callback that left the files alone / that may have written a file
Ret(s, box) == [self |-> s, messagebox |-> box]
RetF(s, fs, box) == [self |-> s, files |-> fs, messagebox |-> box]

\* the file dialog was cancelled
NoPath == ""

-----------------------------------------------------------------------------
(* QuizEditorApp: the question form *)

\* get_options: the option texts that are not blank, unstripped
QuizEditorApp_get_options(s) ==
    SelectSeq(s.options_list, LAMBDA option_text : strip(option_text) # <<>>)

\* QuizEditorApp_select_single_answer(index): var.set(i == index) for every var
QuizEditorApp_select_single_answer(answer_vars, index) ==
    [i \in 1..Len(answer_vars) |-> (i - 1 = index)]

RECURSIVE QuizEditorApp_set_answer_vars(_, _)
\* for idx in correct_answers: self.answer_vars[int(idx)].set(True), IndexError ignored
QuizEditorApp_set_answer_vars(answer_vars, correct_answers) ==
    IF correct_answers = <<>> THEN answer_vars
    ELSE LET idx == Head(correct_answers).v
             next == IF idx + 1 \in 1..Len(answer_vars)
                     THEN [answer_vars EXCEPT ![idx + 1] = TRUE]
                     ELSE answer_vars
         IN QuizEditorApp_set_answer_vars(next, Tail(correct_answers))

\* QuizEditorApp_update_answers_widgets(correct_answers); <<>> stands for correct_answers=None
QuizEditorApp_update_answers_widgets(s, correct_answers) ==
    LET options == QuizEditorApp_get_options(s)
        cleared == [i \in 1..Len(options) |-> FALSE]
    IN  IF options = <<>>
        THEN [s EXCEPT !.answers_shown = "none", !.options_shown = 0]
        ELSE CASE s.question_type = "single" ->
                    [s EXCEPT !.answers_shown = "single",
                              !.options_shown = Len(options),
                              !.has_answer_vars = TRUE,
                              !.answer_vars =
                                  IF correct_answers # <<>>
                                  THEN QuizEditorApp_select_single_answer(cleared, Head(correct_answers).v)
                                  ELSE cleared]
               [] s.question_type = "multiple" ->
                    [s EXCEPT !.answers_shown = "multiple",
                              !.options_shown = Len(options),
                              !.has_answer_vars = TRUE,
                              !.answer_vars = QuizEditorApp_set_answer_vars(cleared, correct_answers)]
               [] s.question_type = "sequence" ->
                    [s EXCEPT !.answers_shown = "sequence",
                              !.options_shown = Len(options),
                              !.has_sequence_order = TRUE,
                              !.sequence_order =
                                  [i \in 1..Len(correct_answers) |-> correct_answers[i].v]]
               [] OTHER -> [s EXCEPT !.answers_shown = "none", !.options_shown = 0]

\* remove_image
QuizEditorApp_remove_image(s) == [s EXCEPT !.image_path = PyNone, !.temp_image_path = PyNone]

\* clear_question_form
QuizEditorApp_clear_question_form(s) ==
    QuizEditorApp_remove_image(
        QuizEditorApp_update_answers_widgets(
            [s EXCEPT !.question_text = <<>>,
                      !.question_type = "single",
                      !.question_difficulty = 1,
                      !.question_explanation = <<>>,
                      !.options_list = <<>>],
            <<>>))

\* QuizEditorApp_load_question(question)
QuizEditorApp_load_question(s, question) ==
    LET c == QuizEditorApp_clear_question_form(s)
        filled == [c EXCEPT !.question_text = question.text,
                            !.question_type = question.question_type,
                            !.question_difficulty = question.difficulty,
                            !.question_explanation = question.explanation,
                            !.options_list = question.options]
        answered == QuizEditorApp_update_answers_widgets(filled, question.correct_answer)
    IN  IF "media_url" \in DOMAIN question /\ Truthy(question.media_url)
        THEN [answered EXCEPT !.image_path = question.media_url]
        ELSE answered

\* get_correct_answers raises AttributeError: the attribute it reads was never set
QuizEditorApp_get_correct_answers_raises(s) ==
    \/ s.question_type \in {"single", "multiple"} /\ ~s.has_answer_vars
    \/ s.question_type = "sequence" /\ ~s.has_sequence_order

\* the indices i with answer_vars[i].get() true, in order (0-based)
Selected(answer_vars) ==
    LET idx == [i \in 1..Len(answer_vars) |-> i - 1]
    IN  SelectSeq(idx, LAMBDA i : answer_vars[i + 1])

\* get_correct_answers (when it does not raise)
QuizEditorApp_get_correct_answers(s) ==
    CASE s.question_type = "single" ->
            IF Selected(s.answer_vars) # <<>>
            THEN <<PyInt(Head(Selected(s.answer_vars)))>>
            ELSE <<PyInt(0)>>
      [] s.question_type = "multiple" ->
            [i \in 1..Len(Selected(s.answer_vars)) |-> PyInt(Selected(s.answer_vars)[i])]
      [] s.question_type = "sequence" ->
            [i \in 1..Len(s.sequence_order) |-> PyStr(s.sequence_order[i])]
      [] OTHER -> <<PyInt(0)>>

-----------------------------------------------------------------------------
(* QuizEditorApp: the callbacks.  s is the object before the call; the      *)
(* result is Ret(object after the call, dialog shown last).                 *)

\* new_file; yes: the answer to askyesno
QuizEditorApp_new_file(s, yes) ==
    IF yes
    THEN LET reset == [s EXCEPT !.current_file_path = None,
                                !.data = EmptyDocument,
                                !.current_question_index = -1]
             cleared == QuizEditorApp_clear_question_form(reset)
         IN  \* update_questions_list, then edit_topic opens its dialog
             Ret([cleared EXCEPT !.questions_list = update_questions_list(EmptyDocument)],
                 Dialog("askyesno", "new file"))
    ELSE Ret(s, Dialog("askyesno", "new file"))

\* open_file; file_path: what askopenfilename returned
QuizEditorApp_open_file(s, fs, file_path) ==
    IF file_path = NoPath THEN Ret(s, NoDialog)
    ELSE IF fs[file_path].kind = "absent"
    THEN Ret(s, Dialog("showerror", "open failed"))
    ELSE IF fs[file_path].kind = "invalid"
    THEN Ret(s, Dialog("showerror", "invalid JSON"))
    ELSE LET data == json_load(fs[file_path].value)
         IN  IF ~PyIn("topic", data) \/ ~PyIn("questions", data)
             THEN Ret(s, Dialog("showerror", "no topic and questions"))
             ELSE LET assigned == QuizEditorApp_clear_question_form(
                                     [s EXCEPT !.data = data,
                                               !.current_file_path = file_path,
                                               !.current_question_index = -1])
                  IN  IF IsDict(data)
                      THEN Ret([assigned EXCEPT
                                   !.questions_list = update_questions_list(data)],
                               Dialog("showinfo", "opened"))
                      ELSE \* update_topic_info raised TypeError, caught
                           Ret(assigned, Dialog("showerror", "open failed"))

\* save_to_file(file_path); writable: the paths open(path, "w") succeeds for
QuizEditorApp_save_to_file(s, fs, file_path, writable) ==
    LET copied == IF Truthy(s.temp_image_path) /\ Truthy(s.image_path)
                  THEN [s EXCEPT !.temp_image_path = PyNone]   \* copy_image_to_media_folder
                  ELSE s
    IN  IF file_path \in writable
        THEN RetF(copied, [fs EXCEPT ![file_path] = JsonFile(json_dump(s.data))],
                  Dialog("showinfo", "saved"))
        ELSE RetF(copied, fs, Dialog("showerror", "save failed"))

\* save_file_as; file_path: what asksaveasfilename returned
QuizEditorApp_save_file_as(s, fs, file_path, writable) ==
    IF file_path = NoPath THEN RetF(s, fs, NoDialog)
    ELSE LET saved == QuizEditorApp_save_to_file(s, fs, file_path, writable)
         IN  [saved EXCEPT !.self.current_file_path = file_path]

\* save_file
QuizEditorApp_save_file(s, fs, file_path, writable) ==
    IF s.current_file_path # None
    THEN QuizEditorApp_save_to_file(s, fs, s.current_file_path, writable)
    ELSE QuizEditorApp_save_file_as(s, fs, file_path, writable)

\* the Save button of the edit_topic dialog (save_topic); topic_id is the int
\* typed into the id entry, or None when it is not an integer
QuizEditorApp_edit_topic(s, topic_id, topic_name) ==
    IF ~HasTopic(s.data) THEN Ret(s, NoDialog)         \* the dialog cannot be built
    ELSE IF topic_id = PyNone THEN Ret(s, Dialog("showerror", "topic id not an integer"))
    ELSE Ret([s EXCEPT !.data.topic.id = topic_id.v,
                       !.data.topic.name = topic_name,
                       !.data.topic.description = strip(Text_get(s.data.topic.description))],
             NoDialog)

QuizEditorApp_new_question(s) ==
    [id |-> Len(s.data.questions) + 1,
     text |-> <<"New", " ", "question">>,
     options |-> <<OptionLabel(1), OptionLabel(2), OptionLabel(3), OptionLabel(4)>>,
     correct_answer |-> <<PyInt(0)>>,
     question_type |-> "single",
     difficulty |-> 1,
     explanation |-> <<>>]

\* add_question
QuizEditorApp_add_question(s) ==
    IF ~HasQuestions(s.data) THEN Ret(s, NoDialog)     \* TypeError, not caught
    ELSE LET new_question == QuizEditorApp_new_question(s)
             appended == [s EXCEPT !.data.questions = Append(@, new_question)]
             selected == [appended EXCEPT
                            !.questions_list = update_questions_list(appended.data),
                            !.current_question_index = Len(appended.data.questions) - 1]
         IN  Ret(QuizEditorApp_load_question(selected, new_question), NoDialog)

\* delete_question; yes: the answer to askyesno
QuizEditorApp_delete_question(s, yes) ==
    IF s.current_question_index < 0
    THEN Ret(s, Dialog("showinfo", "select a question"))
    ELSE IF ~yes THEN Ret(s, Dialog("askyesno", "delete question"))
    ELSE IF ~ValidIndex(s, s.current_question_index)
    THEN Ret(s, Dialog("askyesno", "delete question"))  \* del raised, not caught
    ELSE LET deleted == [s EXCEPT !.data.questions =
                                     DeleteAt(@, s.current_question_index)]
         IN  Ret(QuizEditorApp_clear_question_form(
                    [deleted EXCEPT !.questions_list = update_questions_list(deleted.data),
                                    !.current_question_index = -1]),
                 Dialog("askyesno", "delete question"))

\* on_question_select; selection: the iid of the selected row, or -1 when
\* the selection is empty
QuizEditorApp_on_question_select(s, selection) ==
    IF selection >= 0
    THEN LET chosen == [s EXCEPT !.current_question_index = selection]
         IN  IF ValidIndex(s, selection)
             THEN Ret(QuizEditorApp_load_question(chosen, s.data.questions[selection + 1]), NoDialog)
             ELSE Ret(chosen, NoDialog)                 \* IndexError, not caught
    ELSE Ret(QuizEditorApp_clear_question_form([s EXCEPT !.current_question_index = -1]), NoDialog)

\* the dict save_question_changes builds from the form
QuizEditorApp_question_from_form(s) ==
    LET existing == s.data.questions[s.current_question_index + 1]
        question ==
            [id |-> IF "id" \in DOMAIN existing THEN existing.id
                    ELSE s.current_question_index + 1,
             text |-> strip(Text_get(s.question_text)),
             question_type |-> s.question_type,
             difficulty |-> s.question_difficulty,
             explanation |-> strip(Text_get(s.question_explanation)),
             options |-> QuizEditorApp_get_options(s),
             correct_answer |-> QuizEditorApp_get_correct_answers(s)]
    IN  IF Truthy(s.image_path)
        THEN [k \in DOMAIN question \cup {"media_url"} |->
                IF k = "media_url" THEN s.image_path ELSE question[k]]
        ELSE question

\* the checks of save_question_changes without the one of the sequence
QuizEditorApp_rejection_unordered(question) ==
    CASE question.text = <<>> -> "question text is empty"
      [] Len(question.options) < 2 -> "at least 2 options"
      [] question.correct_answer = <<>> -> "no correct answer"
      [] OTHER -> ""

\* the message of the first check of save_question_changes that the question
\* fails, "" when it passes them all
QuizEditorApp_rejection(question) ==
    CASE question.text = <<>> -> "question text is empty"
      [] Len(question.options) < 2 -> "at least 2 options"
      [] question.correct_answer = <<>> -> "no correct answer"
      [] question.question_type = "sequence"
            /\ Len(question.correct_answer) # Len(question.options) -> "sequence incomplete"
      [] OTHER -> ""

\* save_question_changes ("apply changes")
QuizEditorApp_save_question_changes(s) ==
    IF s.current_question_index < 0
    THEN Ret(s, Dialog("showinfo", "select a question"))
    ELSE IF ~ValidIndex(s, s.current_question_index) \/ QuizEditorApp_get_correct_answers_raises(s)
    THEN Ret(s, Dialog("showerror", "apply failed"))    \* exception, caught
    ELSE LET question == QuizEditorApp_question_from_form(s)
             stored == [s EXCEPT !.data.questions[s.current_question_index + 1] = question]
         IN  IF QuizEditorApp_rejection(question) # ""
             THEN Ret(s, Dialog("showerror", QuizEditorApp_rejection(question)))
             ELSE \* selection_set raises <<TreeviewSelect>>: on_question_select
                  Ret(QuizEditorApp_load_question(
                         [stored EXCEPT !.questions_list = update_questions_list(stored.data)],
                         question),
                      Dialog("showinfo", "applied"))

\* the user replaces the text of the option entry at position (1-based)
QuizEditorApp_type_option(s, position, option_text) ==
    Ret([s EXCEPT !.options_list[position] = option_text], NoDialog)

\* add_option
QuizEditorApp_add_option(s) ==
    Ret(QuizEditorApp_update_answers_widgets(
           [s EXCEPT !.options_list = Append(@, OptionLabel(Len(s.options_list) + 1))],
           <<>>),
        NoDialog)

\* delete_option
QuizEditorApp_delete_option(s) ==
    IF s.options_list = <<>> THEN Ret(s, NoDialog)
    ELSE Ret(QuizEditorApp_update_answers_widgets(
                [s EXCEPT !.options_list = SubSeq(@, 1, Len(@) - 1)], <<>>),
             NoDialog)

\* the user picks question_type in the combobox: on_question_type_change
QuizEditorApp_on_question_type_change(s, question_type) ==
    Ret(QuizEditorApp_update_answers_widgets([s EXCEPT !.question_type = question_type], <<>>), NoDialog)

\* the user clicks radio button index (0-based) of the answers tab
QuizEditorApp_click_answer(s, index) ==
    Ret([s EXCEPT !.answer_vars = QuizEditorApp_select_single_answer(@, index)], NoDialog)

\* the user clicks check box index (0-based) of the answers tab: its variable
\* changes value
QuizEditorApp_toggle_answer(s, index) ==
    Ret([s EXCEPT !.answer_vars[index + 1] = ~@], NoDialog)

\* the user replaces the content of the question text widget
QuizEditorApp_type_question_text(s, content) ==
    Ret([s EXCEPT !.question_text = content], NoDialog)

\* the buttons of the sequence editor, as update_sequence_display builds them
\* for the options the answers tab was built with: an entry of the order has
\* its three buttons when options[int(idx)] exists, an option has its "add"
\* button when it is not in the order

\* add_to_sequence(index)
QuizEditorApp_add_to_sequence(s, index) ==
    Ret([s EXCEPT !.sequence_order = Append(@, index)], NoDialog)

\* remove_from_sequence(position)
QuizEditorApp_remove_from_sequence(s, position) ==
    IF 0 <= position /\ position < Len(s.sequence_order)
    THEN Ret([s EXCEPT !.sequence_order = DeleteAt(@, position)], NoDialog)
    ELSE Ret(s, NoDialog)

\* move_up(position)
QuizEditorApp_move_up(s, position) ==
    IF position > 0
    THEN Ret([s EXCEPT !.sequence_order[position + 1] = s.sequence_order[position],
                       !.sequence_order[position] = s.sequence_order[position + 1]],
             NoDialog)
    ELSE Ret(s, NoDialog)

\* move_down(position)
QuizEditorApp_move_down(s, position) ==
    IF position < Len(s.sequence_order) - 1
    THEN Ret([s EXCEPT !.sequence_order[position + 1] = s.sequence_order[position + 2],
                       !.sequence_order[position + 2] = s.sequence_order[position + 1]],
             NoDialog)
    ELSE Ret(s, NoDialog)

-----------------------------------------------------------------------------
(* EnhancedQuizEditorApp: the question form *)

\* get_options: the option texts that are not blank
Enhanced_get_options(s) ==
    SelectSeq(s.options_list, LAMBDA option_text : strip(option_text) # <<>>)

\* load_correct_answers(correct_answers): the widgets of answers_frame are
\* destroyed (a destroyed Entry can no longer be read), then rebuilt for the type
Enhanced_load_correct_answers(s, correct_answers) ==
    LET destroyed == [s EXCEPT !.sequence_entry = <<>>]
    IN  CASE s.question_type = "single" ->        \* create_single_answer_controls
                [destroyed EXCEPT
                    !.has_correct_answer_var = TRUE,
                    !.correct_answer_var =
                        IF correct_answers # <<>> THEN Head(correct_answers).v ELSE 0]
          [] s.question_type = "sequence" ->      \* create_sequence_answer_controls
                [destroyed EXCEPT
                    !.has_sequence_entry = TRUE,
                    !.sequence_entry =
                        [i \in 1..Len(correct_answers) |-> str(correct_answers[i]).v]]
          [] OTHER -> destroyed                   \* create_multiple_answer_controls

\* get_correct_answers
Enhanced_get_correct_answers(s) ==
    CASE s.question_type = "single" ->
            IF s.has_correct_answer_var THEN <<PyInt(s.correct_answer_var)>>
            ELSE <<PyInt(0)>>
      [] s.question_type = "sequence" ->
            IF s.has_sequence_entry
            THEN \* int(x.strip()) of every part; int("") raises, caught: []
                 [i \in 1..Len(s.sequence_entry) |-> int(PyStr(s.sequence_entry[i]))]
            ELSE <<>>
      [] OTHER -> <<>>                            \* correct_answers_vars is always []

\* QuizEditorApp_load_question(question)
Enhanced_load_question(s, question) ==
    LET filled == [s EXCEPT
                     !.question_text = Get(question, "text", <<>>),
                     !.question_type = Get(question, "question_type", "single"),
                     !.question_difficulty = Get(question, "difficulty", 1),
                     !.question_explanation = Get(question, "explanation", <<>>),
                     !.options_list = Get(question, "options", <<>>)]       \* load_options
        answered == Enhanced_load_correct_answers(
                        filled, Get(question, "correct_answer", <<>>))
    IN  [answered EXCEPT !.image_path = Get(question, "media_url", NoImage)] \* load_image

\* get_current_question_data
Enhanced_get_current_question_data(s) ==
    [text |-> strip(Text_get(s.question_text)),
     question_type |-> s.question_type,
     difficulty |-> s.question_difficulty,
     explanation |-> strip(Text_get(s.question_explanation)),
     options |-> Enhanced_get_options(s),
     correct_answer |-> Enhanced_get_correct_answers(s),
     media_url |-> s.image_path]

\* on_text_change
Enhanced_on_text_change(s) == [s EXCEPT !.unsaved_changes = TRUE]

\* update_questions_list: the rows are deleted, then inserted again, which
\* raises when self.data has no "questions"
Enhanced_update_questions_list(s) ==
    [s EXCEPT !.questions_list =
        IF HasQuestions(s.data) THEN update_questions_list(s.data) ELSE {}]

-----------------------------------------------------------------------------
(* EnhancedQuizEditorApp: the callbacks *)

\* save_to_file(file_path); writable: the paths ensure_media_paths and
\* open(path, "w") succeed for
Enhanced_save_to_file(s, fs, file_path, writable) ==
    IF file_path \in writable
    THEN RetF([s EXCEPT !.unsaved_changes = FALSE],
              [fs EXCEPT ![file_path] = JsonFile(json_dump(s.data))],
              Dialog("showinfo", "saved"))
    ELSE RetF(s, fs, Dialog("showerror", "save failed"))

\* save_file_as; file_path: what asksaveasfilename returned
Enhanced_save_file_as(s, fs, file_path, writable) ==
    IF file_path = NoPath THEN RetF(s, fs, NoDialog)
    ELSE Enhanced_save_to_file([s EXCEPT !.current_file_path = file_path],
                               fs, file_path, writable)

\* save_file
Enhanced_save_file(s, fs, file_path, writable) ==
    IF s.current_file_path # None
    THEN Enhanced_save_to_file(s, fs, s.current_file_path, writable)
    ELSE Enhanced_save_file_as(s, fs, file_path, writable)

\* the prompt of new_file, open_file and on_closing when there are unsaved
\* changes; answer: the answer to askyesnocancel, "yes" starts save_file
Enhanced_prompt(s, fs, answer, file_path, writable) ==
    IF ~s.unsaved_changes THEN RetF(s, fs, NoDialog)
    ELSE IF answer = "yes"
    THEN LET saved == Enhanced_save_file(s, fs, file_path, writable)
         IN  IF saved.messagebox = NoDialog
             THEN [saved EXCEPT !.messagebox = Dialog("askyesnocancel", "unsaved changes")]
             ELSE saved
    ELSE RetF(s, fs, Dialog("askyesnocancel", "unsaved changes"))

\* the prompt was answered with Cancel
Enhanced_cancelled(s, answer) == s.unsaved_changes /\ answer = "cancel"

\* new_file
Enhanced_new_file(s, fs, answer, file_path, writable) ==
    LET prompted == Enhanced_prompt(s, fs, answer, file_path, writable)
    IN  IF Enhanced_cancelled(s, answer) THEN prompted
        ELSE [prompted EXCEPT
                !.self = Enhanced_update_questions_list(
                            [prompted.self EXCEPT !.data = EmptyDocument,
                                                  !.current_file_path = None,
                                                  !.current_question_index = -1,
                                                  !.unsaved_changes = FALSE])]

\* the try block of open_file for the chosen file_path
Enhanced_open(s, fs, file_path) ==
    IF fs[file_path].kind # "json"
    THEN RetF(s, fs, Dialog("showerror", "open failed"))
    ELSE LET assigned == [s EXCEPT !.data = json_load(fs[file_path].value),
                                   !.current_file_path = file_path,
                                   !.unsaved_changes = FALSE,
                                   !.current_question_index = -1]
         IN  IF IsList(assigned.data)
             THEN \* update_topic_info raised AttributeError, caught
                  RetF(assigned, fs, Dialog("showerror", "open failed"))
             ELSE IF ~HasQuestions(assigned.data)
             THEN \* update_questions_list raised KeyError, caught
                  RetF(Enhanced_update_questions_list(assigned), fs,
                       Dialog("showerror", "open failed"))
             ELSE RetF(Enhanced_update_questions_list(assigned), fs,
                       Dialog("showinfo", "opened"))

\* open_file; open_path: what askopenfilename returned
Enhanced_open_file(s, fs, answer, file_path, writable, open_path) ==
    LET prompted == Enhanced_prompt(s, fs, answer, file_path, writable)
    IN  IF Enhanced_cancelled(s, answer) \/ open_path = NoPath THEN prompted
        ELSE Enhanced_open(prompted.self, prompted.files, open_path)

\* on_closing
Enhanced_on_closing(s, fs, answer, file_path, writable) ==
    LET prompted == Enhanced_prompt(s, fs, answer, file_path, writable)
    IN  IF Enhanced_cancelled(s, answer) THEN prompted
        ELSE [prompted EXCEPT !.self.destroyed = TRUE]

\* the Save button of the edit_topic dialog (save_topic)
Enhanced_edit_topic(s, topic_name) ==
    IF ~HasTopic(s.data) THEN Ret(s, NoDialog)          \* the dialog cannot be built
    ELSE IF strip(topic_name) = <<>>
    THEN Ret(s, Dialog("showerror", "topic name is empty"))
    ELSE Ret([s EXCEPT !.data.topic.name = strip(topic_name),
                       !.data.topic.description =
                            strip(Text_get(Get(s.data.topic, "description", <<>>))),
                       !.unsaved_changes = TRUE],
             NoDialog)

Enhanced_new_question(s) ==
    [id |-> Len(s.data.questions) + 1,
     text |-> <<"New", " ", "question">>,
     options |-> <<OptionLabel(1), OptionLabel(2)>>,
     correct_answer |-> <<PyInt(0)>>,
     question_type |-> "single",
     difficulty |-> 1,
     explanation |-> <<>>,
     media_url |-> NoImage]

\* add_question
Enhanced_add_question(s) ==
    IF ~HasQuestions(s.data) THEN Ret(s, NoDialog)      \* exception, not caught
    ELSE Ret(Enhanced_on_text_change(
                Enhanced_update_questions_list(
                    [s EXCEPT !.data.questions = Append(@, Enhanced_new_question(s))])),
             NoDialog)

\* delete_question; yes: the answer to askyesno
Enhanced_delete_question(s, yes) ==
    IF s.current_question_index < 0 THEN Ret(s, NoDialog)
    ELSE IF ~HasQuestions(s.data) THEN Ret(s, NoDialog) \* exception, not caught
    ELSE IF s.current_question_index >= Len(s.data.questions) THEN Ret(s, NoDialog)
    ELSE IF ~yes THEN Ret(s, Dialog("askyesno", "delete question"))
    ELSE Ret(Enhanced_on_text_change(
                Enhanced_update_questions_list(
                    [s EXCEPT !.data.questions = DeleteAt(@, s.current_question_index),
                              !.current_question_index = -1])),
             Dialog("askyesno", "delete question"))

\* a duplicate_question that works on the selected dict itself, not on a copy
Enhanced_duplicate_uncopied(s) ==
    IF s.current_question_index < 0 THEN Ret(s, NoDialog)
    ELSE IF ~ValidIndex(s, s.current_question_index)
    THEN Ret(s, NoDialog)
    ELSE LET original == s.data.questions[s.current_question_index + 1]
             copy == [k \in DOMAIN original \cup {"id"} |->
                        CASE k = "id" -> Len(s.data.questions) + 1
                          [] k = "text" -> <<"[Copy]", " ">> \o original.text
                          [] OTHER -> original[k]]
         IN  Ret(Enhanced_on_text_change(
                    Enhanced_update_questions_list(
                        [s EXCEPT !.data.questions =
                            Append([@ EXCEPT ![s.current_question_index + 1] = copy],
                                   copy)])),
                 NoDialog)

\* duplicate_question
Enhanced_duplicate_question(s) ==
    IF s.current_question_index < 0 THEN Ret(s, NoDialog)
    ELSE IF ~ValidIndex(s, s.current_question_index)
    THEN Ret(s, NoDialog)                               \* exception, not caught
    ELSE LET original == s.data.questions[s.current_question_index + 1]
             copy == [k \in DOMAIN original \cup {"id"} |->
                        CASE k = "id" -> Len(s.data.questions) + 1
                          [] k = "text" -> <<"[Copy]", " ">> \o original.text
                          [] OTHER -> original[k]]
         IN  Ret(Enhanced_on_text_change(
                    Enhanced_update_questions_list(
                        [s EXCEPT !.data.questions = Append(@, copy)])),
                 NoDialog)

\* on_question_select; selection: the iid of the selected row, or -1 when
\* the selection is empty
Enhanced_on_question_select(s, selection) ==
    IF selection < 0 THEN Ret(s, NoDialog)
    ELSE LET chosen == [s EXCEPT !.current_question_index = selection]
         IN  IF ValidIndex(s, selection)
             THEN Ret(Enhanced_load_question(chosen, s.data.questions[selection + 1]),
                      NoDialog)
             ELSE Ret(chosen, NoDialog)

\* save_question_changes ("apply changes")
Enhanced_save_question_changes(s) ==
    IF s.current_question_index < 0 THEN Ret(s, NoDialog)
    ELSE IF ~ValidIndex(s, s.current_question_index)
    THEN Ret(s, NoDialog)                               \* exception, not caught
    ELSE Ret(Enhanced_on_text_change(
                Enhanced_update_questions_list(
                    [s EXCEPT !.data.questions[s.current_question_index + 1] =
                                  Enhanced_get_current_question_data(s)])),
             Dialog("showinfo", "applied"))

\* cancel_question_changes
Enhanced_cancel_question_changes(s) ==
    IF s.current_question_index < 0 THEN Ret(s, NoDialog)
    ELSE IF ~ValidIndex(s, s.current_question_index)
    THEN Ret(s, NoDialog)                               \* exception, not caught
    ELSE Ret(Enhanced_load_question(s, s.data.questions[s.current_question_index + 1]),
             NoDialog)

\* add_option: add_option_field(), on_text_change()
Enhanced_add_option(s) ==
    Ret(Enhanced_on_text_change([s EXCEPT !.options_list = Append(@, <<>>)]), NoDialog)

\* delete_option: delete_option_field of the last option
Enhanced_delete_option(s) ==
    IF s.options_list = <<>> THEN Ret(s, NoDialog)
    ELSE Ret(Enhanced_on_text_change(
                [s EXCEPT !.options_list = SubSeq(@, 1, Len(@) - 1)]),
             NoDialog)

\* the user picks question_type in the combobox: on_question_type_change
Enhanced_on_question_type_change(s, question_type) ==
    Ret(Enhanced_on_text_change(
            Enhanced_load_correct_answers([s EXCEPT !.question_type = question_type],
                                          <<>>)),
        NoDialog)

\* the user replaces the text of the option entry at position (1-based); the
\* entry is bound to on_text_change
Enhanced_type_option(s, position, option_text) ==
    Ret(Enhanced_on_text_change([s EXCEPT !.options_list[position] = option_text]),
        NoDialog)

\* remove_image
Enhanced_remove_image(s) ==
    Ret(Enhanced_on_text_change([s EXCEPT !.image_path = PyNone]), NoDialog)

\* perform_import, the Import button of the dialog of import_from_json; data is
\* the document read from file_path, merge_questions the state of the checkbox
Enhanced_perform_import(s, data, file_path, merge_questions) ==
    LET start_id == Len(s.data.questions) + 1
        renumbered == [i \in 1..Len(data.questions) |->
                          [k \in DOMAIN data.questions[i] \cup {"id"} |->
                              IF k = "id" THEN start_id + (i - 1)
                              ELSE data.questions[i][k]]]
        imported == IF merge_questions
                    THEN [s EXCEPT !.data.questions = @ \o renumbered]
                    ELSE [s EXCEPT !.data = data]
        named == [imported EXCEPT !.current_file_path = file_path,
                                  !.unsaved_changes = FALSE]
    IN  IF merge_questions /\ (~HasQuestions(s.data) \/ ~HasQuestions(data))
        THEN Ret(s, NoDialog)                           \* exception, not caught
        ELSE IF IsList(named.data)
        THEN Ret(named, NoDialog)                       \* update_topic_info raised
        ELSE IF ~HasQuestions(named.data)
        THEN Ret(Enhanced_update_questions_list(named), NoDialog)
        ELSE Ret(Enhanced_update_questions_list(named), Dialog("showinfo", "imported"))

\* import_from_json; file_path: what askopenfilename returned; config_available:
\* the module flag CONFIG_AVAILABLE; valid: the verdict of validate_json_structure;
\* pressed: the user presses Import in the dialog (and does not just close it)
Enhanced_import_from_json(s, fs, file_path, config_available, valid, merge_questions, pressed) ==
    IF file_path = NoPath THEN Ret(s, NoDialog)
    ELSE IF fs[file_path].kind # "json"
    THEN Ret(s, Dialog("showerror", "import failed"))
    ELSE IF config_available /\ ~valid
    THEN Ret(s, Dialog("showerror", "validation"))
    ELSE IF ~pressed THEN Ret(s, NoDialog)
    ELSE Enhanced_perform_import(s, json_load(fs[file_path].value), file_path,
                                 merge_questions)

-----------------------------------------------------------------------------
(* What the user and the environment may do *)

\* longest question text duplicate_question may still copy
MaxTextLen == 5

Answers == {"yes", "no", "cancel"}

\* what the open dialog and the save dialog may return
OpenPaths == Paths \cup {NoPath}
SavePaths == {SavePath, NoPath}

\* what the user may type into the topic dialog
TopicIds == {PyInt(1), PyNone}
TopicNames == {<<"T">>, <<" ">>}

\* the callback returned r
Returned(r) ==
    /\ self' = r.self
    /\ messagebox' = r.messagebox
    /\ files' = IF "files" \in DOMAIN r THEN r.files ELSE files
    /\ UNCHANGED <<app, CONFIG_AVAILABLE, db>>

IsQuizEditorApp == app = "QuizEditorApp"

\* the window exists, so its callbacks can run
Running == ~self.destroyed

\* the answers the prompt of new_file / open_file / on_closing may get
PromptAnswers ==
    IF IsQuizEditorApp THEN {"yes", "no"}               \* askyesno of new_file
    ELSE IF self.unsaved_changes THEN Answers ELSE {"no"}

\* what the save dialog may return, when save_file gets to show it
SaveDialog(saving) ==
    IF saving /\ self.current_file_path = None THEN SavePaths ELSE {NoPath}

\* the sets of paths whose write may succeed, out of those in W
Writable(saving, W) == IF saving THEN SUBSET W ELSE {{}}

\* the save that answer "yes" starts in the enhanced editor
Saving(answer) == ~IsQuizEditorApp /\ answer = "yes"

new_file(W) ==
    /\ Running
    /\ \E answer \in PromptAnswers :
       \E file_path \in SaveDialog(Saving(answer)), writable \in Writable(Saving(answer), W) :
        Returned(IF IsQuizEditorApp
                 THEN QuizEditorApp_new_file(self, answer = "yes")
                 ELSE Enhanced_new_file(self, files, answer, file_path, writable))

open_file(W) ==
    /\ Running
    /\ \E answer \in PromptAnswers \ (IF IsQuizEditorApp THEN {"yes"} ELSE {}),
          open_path \in OpenPaths :
       \E file_path \in SaveDialog(Saving(answer)), writable \in Writable(Saving(answer), W) :
        Returned(IF IsQuizEditorApp
                 THEN QuizEditorApp_open_file(self, files, open_path)
                 ELSE Enhanced_open_file(self, files, answer, file_path, writable,
                                         open_path))

save_file(W) ==
    /\ Running
    /\ \E file_path \in SaveDialog(TRUE), writable \in SUBSET W :
        Returned(IF IsQuizEditorApp
                 THEN QuizEditorApp_save_file(self, files, file_path, writable)
                 ELSE Enhanced_save_file(self, files, file_path, writable))

save_file_as(W) ==
    /\ Running
    /\ \E file_path \in SavePaths, writable \in SUBSET W :
        Returned(IF IsQuizEditorApp
                 THEN QuizEditorApp_save_file_as(self, files, file_path, writable)
                 ELSE Enhanced_save_file_as(self, files, file_path, writable))

edit_topic ==
    /\ Running
    /\ \E topic_id \in TopicIds, topic_name \in TopicNames :
        Returned(IF IsQuizEditorApp
                 THEN QuizEditorApp_edit_topic(self, topic_id, topic_name)
                 ELSE Enhanced_edit_topic(self, topic_name))

\* add_question while the document holds fewer than max questions
add_question(max) ==
    /\ Running
    /\ HasQuestions(self.data) => Len(self.data.questions) < max
    /\ Returned(IF IsQuizEditorApp THEN QuizEditorApp_add_question(self)
                ELSE Enhanced_add_question(self))

delete_question ==
    /\ Running
    /\ \E yes \in BOOLEAN :
        Returned(IF IsQuizEditorApp THEN QuizEditorApp_delete_question(self, yes)
                 ELSE Enhanced_delete_question(self, yes))

\* the user clicks a row of the list
on_question_select ==
    /\ Running
    /\ \E selection \in self.questions_list :
        Returned(IF IsQuizEditorApp THEN QuizEditorApp_on_question_select(self, selection)
                 ELSE Enhanced_on_question_select(self, selection))

save_question_changes ==
    /\ Running
    /\ Returned(IF IsQuizEditorApp THEN QuizEditorApp_save_question_changes(self)
                ELSE Enhanced_save_question_changes(self))

add_option ==
    /\ Running
    /\ Len(self.options_list) < MaxOptions
    /\ Returned(IF IsQuizEditorApp THEN QuizEditorApp_add_option(self)
                ELSE Enhanced_add_option(self))

delete_option ==
    /\ Running
    /\ Returned(IF IsQuizEditorApp THEN QuizEditorApp_delete_option(self)
                ELSE Enhanced_delete_option(self))

on_question_type_change ==
    /\ Running
    /\ \E question_type \in QuestionTypes :
        Returned(IF IsQuizEditorApp
                 THEN QuizEditorApp_on_question_type_change(self, question_type)
                 ELSE Enhanced_on_question_type_change(self, question_type))

\* what the user may type into an option entry
OptionTexts == {<<" ">>}

\* most option entries the user retypes in a session of the answers tab
MaxTyped == 1

\* the user replaces the text of one of the first max option entries
type_option(max) ==
    /\ Running
    /\ \E position \in 1..Len(self.options_list), option_text \in OptionTexts :
        /\ position <= max
        /\ Returned(IF IsQuizEditorApp
                    THEN QuizEditorApp_type_option(self, position, option_text)
                    ELSE Enhanced_type_option(self, position, option_text))

\* the user clicks one of the radio buttons of the answers tab
click_answer ==
    /\ Running /\ IsQuizEditorApp
    /\ self.answers_shown = "single"
    /\ \E index \in 0..(self.options_shown - 1) :
        Returned(QuizEditorApp_click_answer(self, index))

\* most check boxes the user clicks in a session of the answers tab
MaxTicked == 1

\* the user clicks one of the first max check boxes of the answers tab
toggle_answer(max) ==
    /\ Running /\ IsQuizEditorApp
    /\ self.answers_shown = "multiple"
    /\ \E index \in 0..(self.options_shown - 1) :
        /\ index < max
        /\ Returned(QuizEditorApp_toggle_answer(self, index))

\* what the user may type into the question text widget
QuestionTexts == {<<" ">>}

type_question_text ==
    /\ Running /\ IsQuizEditorApp
    /\ \E content \in QuestionTexts :
        Returned(QuizEditorApp_type_question_text(self, content))

\* the positions of the order that have their buttons
Placed == {position \in 0..(Len(self.sequence_order) - 1) :
                self.sequence_order[position + 1] \in 0..(self.options_shown - 1)}

\* the user clicks the button of an option that is not in the order
add_to_sequence ==
    /\ Running /\ IsQuizEditorApp
    /\ self.answers_shown = "sequence"
    /\ \E index \in 0..(self.options_shown - 1) \ Range(self.sequence_order) :
        Returned(QuizEditorApp_add_to_sequence(self, index))

remove_from_sequence ==
    /\ Running /\ IsQuizEditorApp
    /\ self.answers_shown = "sequence"
    /\ \E position \in Placed :
        Returned(QuizEditorApp_remove_from_sequence(self, position))

move_up ==
    /\ Running /\ IsQuizEditorApp
    /\ self.answers_shown = "sequence"
    /\ \E position \in Placed : Returned(QuizEditorApp_move_up(self, position))

move_down ==
    /\ Running /\ IsQuizEditorApp
    /\ self.answers_shown = "sequence"
    /\ \E position \in Placed : Returned(QuizEditorApp_move_down(self, position))

\* callbacks only the enhanced editor has

duplicate_question ==
    /\ Running /\ ~IsQuizEditorApp
    /\ ValidIndex(self, self.current_question_index) =>
            /\ Len(self.data.questions) < MaxQuestions
            /\ Len(self.data.questions[self.current_question_index + 1].text) + 2
                    <= MaxTextLen
    /\ Returned(Enhanced_duplicate_question(self))

cancel_question_changes ==
    /\ Running /\ ~IsQuizEditorApp
    /\ Returned(Enhanced_cancel_question_changes(self))

remove_image ==
    /\ Running /\ ~IsQuizEditorApp
    /\ Returned(Enhanced_remove_image(self))

\* the file at file_path can be read as JSON
Readable(file_path) == file_path # NoPath /\ files[file_path].kind = "json"

\* import_from_json; modes: the values of the "merge" checkbox the user may leave
import_from_json(modes) ==
    /\ Running /\ ~IsQuizEditorApp
    /\ \E file_path \in OpenPaths :
       \E valid \in (IF Readable(file_path) /\ CONFIG_AVAILABLE THEN BOOLEAN ELSE {TRUE}) :
       \E pressed \in (IF Readable(file_path) /\ valid THEN BOOLEAN ELSE {FALSE}) :
       \E merge_questions \in (IF pressed THEN modes ELSE {FALSE}) :
        /\ (/\ merge_questions
            /\ HasQuestions(self.data)
            /\ HasQuestions(files[file_path].value))
           => Len(self.data.questions) + Len(files[file_path].value.questions)
                    <= MaxQuestions
        /\ Returned(Enhanced_import_from_json(self, files, file_path, CONFIG_AVAILABLE,
                                              valid, merge_questions, pressed))

on_closing(W) ==
    /\ Running /\ ~IsQuizEditorApp
    /\ \E answer \in PromptAnswers :
       \E file_path \in SaveDialog(Saving(answer)), writable \in Writable(Saving(answer), W) :
        Returned(Enhanced_on_closing(self, files, answer, file_path, writable))

-----------------------------------------------------------------------------
(* database_integration.py: DatabaseIntegration *)

\* most rows the topics table / the questions table may hold before an
\* import stops
MaxTopics == 2
MaxRows == 2

\* what a method returned
Tuple(ok, message) == [t |-> "tuple", ok |-> ok, message |-> message]
List(items) == [t |-> "list", items |-> items]
Dict(value) == [t |-> "dict", value |-> value]
ReturnedNone == [t |-> "None"]
NoResult == [t |-> "none"]                  \* no method has returned yet

\* DatabaseIntegration(): the module flags as the imports left them, the
\* object, the two tables, and what the last method called did: its name, the
\* calls it made on the database and the file system, and what it returned;
\* autoflush: the sessions of get_session() flush the rows added before they
\* run a query (the default of an ORM session)
DatabaseIntegration(modules, config, validators) ==
    [DB_AVAILABLE |-> modules /\ config,
     VALIDATORS_AVAILABLE |-> validators,
     db_available |-> modules /\ config,
     autoflush |-> TRUE,
     topics |-> <<>>,
     questions |-> <<>>,
     called |-> "__init__",
     log |-> <<>>,
     result |-> NoResult]

\* the method named called returns result after the calls of log
Return(d, called, log, result) ==
    [d EXCEPT !.called = called, !.log = log, !.result = result]

\* the calls that may raise
Calls == {"get_session", "get", "query", "flush", "commit"}
Never == "never"

\* {} of Python
EmptyDict == [k \in {} |-> 0]

\* json.dumps / json.loads of a list of options (strings) and of a
\* correct_answer list
json_dumps(field, value) ==
    [t |-> "json",
     v |-> IF field = "correct_answer"
           THEN [i \in 1..Len(value) |-> json_dump_scalar(value[i])]
           ELSE value]

json_loads(field, text) ==
    IF field = "correct_answer"
    THEN [i \in 1..Len(text.v) |-> json_load_scalar(text.v[i])]
    ELSE text.v

\* the errors _basic_validation finds in questions[i..]
RECURSIVE DatabaseIntegration_question_errors(_, _)
DatabaseIntegration_question_errors(questions, i) ==
    IF i > Len(questions) THEN <<>>
    ELSE LET question == questions[i]
             n == Digits[i]
         IN  (IF strip(Get(question, "text", <<>>)) = <<>>
              THEN <<<<n, "empty text">>>> ELSE <<>>)
          \o (IF "options" \notin DOMAIN question \/ question.options = <<>>
              THEN <<<<n, "no options">>>>
              ELSE IF Len(question.options) < 2
              THEN <<<<n, "fewer than 2 options">>>> ELSE <<>>)
          \o (IF "correct_answer" \notin DOMAIN question
              THEN <<<<n, "no correct answer">>>> ELSE <<>>)
          \o (IF Get(question, "question_type", None) \notin QuestionTypes
              THEN <<<<n, "wrong question type">>>> ELSE <<>>)
          \o DatabaseIntegration_question_errors(questions, i + 1)

\* _basic_validation(json_data) for a dict whose "topic" is a dict and whose
\* "questions" is a list of dicts
DatabaseIntegration_basic_validation(json_data) ==
    LET errors ==
            (IF "topic" \notin DOMAIN json_data THEN <<<<"0", "no topic">>>>
             ELSE IF strip(Get(json_data.topic, "name", <<>>)) = <<>>
             THEN <<<<"0", "empty topic name">>>> ELSE <<>>)
         \o (IF "questions" \notin DOMAIN json_data THEN <<<<"0", "no questions">>>>
             ELSE (IF json_data.questions = <<>>
                   THEN <<<<"0", "empty questions">>>> ELSE <<>>)
               \o DatabaseIntegration_question_errors(json_data.questions, 1))
    IN  [valid |-> errors = <<>>, errors |-> errors]

\* validate_json_for_import(json_data); structure: what validate_json_structure
\* of utils.validators does with json_data ("valid", "invalid" or "raises")
DatabaseIntegration_validate_json_for_import(d, json_data, structure) ==
    IF ~d.DB_AVAILABLE \/ ~d.VALIDATORS_AVAILABLE
    THEN DatabaseIntegration_basic_validation(json_data)
    ELSE IF structure = "raises" THEN DatabaseIntegration_basic_validation(json_data)
    ELSE IF structure = "invalid"
    THEN [valid |-> FALSE, errors |-> <<<<"0", "structure">>>>]
    ELSE [valid |-> TRUE, errors |-> <<>>]

\* f"Ошибки валидации: {'; '.join(errors)}"
ValidationMessage(errors) == [text |-> "validation errors", errors |-> errors]

\* with get_session() as session: the rows of the session (those of the
\* tables, then those it added), the calls made so far, and the question rows
\* a query finds when the session does not flush before it
Session(d) ==
    [topics |-> d.topics, questions |-> d.questions, log |-> <<"get_session">>,
     autoflush |-> d.autoflush, stored |-> Len(d.questions)]

\* the question rows of the session that a query sees
Visible(session) ==
    IF session.autoflush THEN 1..Len(session.questions) ELSE 1..session.stored

\* a call on the session that returned / that raised
session_call(session, call) == [session EXCEPT !.log = Append(@, call)]
session_raised(session, call) == [session EXCEPT !.log = @ \o <<call, "raised">>]

\* the id the database gives the next row of a table
NextId(rows) ==
    IF rows = <<>> THEN 1
    ELSE 1 + CHOOSE id \in {rows[i].id : i \in 1..Len(rows)} :
                \A i \in 1..Len(rows) : rows[i].id <= id

\* an add that commits at once
session_add_committed(session, table, row) ==
    [session EXCEPT ![table] = Append(@, row), !.log = @ \o <<"add", "commit">>]

\* session.add(row)
session_add(session, table, row) ==
    [session EXCEPT ![table] = Append(@, row), !.log = Append(@, "add")]

\* the text of a returned message, and the errors it lists
Message(text) == [text |-> text, errors |-> <<>>]

\* the rows of a table with the given id
Rows(rows, id) == {i \in 1..Len(rows) : rows[i].id = id}

\* import_json_to_database, the topic: the session after it, the id of the
\* topic row, and how it ended ("done", "exists" or "raised")
DatabaseIntegration_import_topic(session, json_data, update_existing, raises) ==
    LET topic_data == Get(json_data, "topic", EmptyDict)
        topic_id == Get(topic_data, "id", 0)
        looked == IF topic_id # 0 THEN session_call(session, "get") ELSE session
        existing_topic == IF topic_id # 0 THEN Rows(session.topics, topic_id) ELSE {}
        added == session_add(looked, "topics",
                             [id |-> NextId(looked.topics),
                              name |-> topic_data.name,
                              description |-> Get(topic_data, "description", <<>>)])
    IN  IF topic_id # 0 /\ raises = "get"
        THEN [session |-> session_raised(session, "get"), id |-> 0, outcome |-> "raised"]
        ELSE IF existing_topic # {} /\ ~update_existing
        THEN [session |-> looked, id |-> topic_id, outcome |-> "exists"]
        ELSE IF "name" \notin DOMAIN topic_data                      \* KeyError
        THEN [session |-> looked, id |-> 0, outcome |-> "raised"]
        ELSE IF existing_topic # {}
        THEN [session |->
                [looked EXCEPT !.topics =
                    [i \in 1..Len(@) |->
                        IF i \in existing_topic
                        THEN [@[i] EXCEPT !.name = topic_data.name,
                                          !.description =
                                              Get(topic_data, "description", <<>>)]
                        ELSE @[i]]],
              id |-> topic_id, outcome |-> "done"]
        ELSE IF raises = "flush"
        THEN [session |-> session_raised(added, "flush"), id |-> 0, outcome |-> "raised"]
        ELSE [session |-> session_call(added, "flush"),
              id |-> NextId(looked.topics), outcome |-> "done"]

\* _copy_media_file(media_path): no media file exists in the file system of
\* the model, so the path comes back as it is
DatabaseIntegration_copy_media_file(media_path) == media_path

\* the columns _import_single_question takes from question_data
QuestionColumns(question_data, copy_images) ==
    [text |-> question_data.text,
     options |-> json_dumps("options", question_data.options),
     correct_answer |-> json_dumps("correct_answer", question_data.correct_answer),
     question_type |-> question_data.question_type,
     difficulty |-> Get(question_data, "difficulty", 1),
     media_url |->
        LET media_url == Get(question_data, "media_url", PyNone)
        IN  IF Truthy(media_url) /\ copy_images
            THEN DatabaseIntegration_copy_media_file(media_url) ELSE media_url,
     explanation |-> Get(question_data, "explanation", <<>>)]

\* _import_single_question: the session after it and the pair it returns
DatabaseIntegration_import_single_question(session, topic_id, question_data, update_existing, copy_images, raises) ==
    LET question_id == Get(question_data, "id", 0)
        looked == IF question_id # 0 THEN session_call(session, "query") ELSE session
        existing_question ==
            IF question_id = 0 THEN {}
            ELSE {i \in Rows(session.questions, question_id) \cap Visible(session) :
                     session.questions[i].topic_id = topic_id}
        columns == QuestionColumns(question_data, copy_images)
    IN  IF question_id # 0 /\ raises = "query"
        THEN [session |-> session_raised(session, "query"),
              success |-> FALSE, q_type |-> "error"]
        ELSE IF existing_question # {} /\ ~update_existing
        THEN [session |-> looked, success |-> FALSE, q_type |-> "skipped"]
        ELSE IF ~({"options", "correct_answer", "text", "question_type"}
                    \subseteq DOMAIN question_data)                  \* KeyError
        THEN [session |-> looked, success |-> FALSE, q_type |-> "error"]
        ELSE IF existing_question # {}
        THEN [session |->
                [looked EXCEPT !.questions =
                    [i \in 1..Len(@) |->
                        IF i \in existing_question
                        THEN [k \in DOMAIN @[i] |->
                                IF k \in DOMAIN columns THEN columns[k] ELSE @[i][k]]
                        ELSE @[i]]],
              success |-> TRUE, q_type |-> "updated"]
        ELSE [session |->
                session_add(looked, "questions",
                            [k \in DOMAIN columns \cup {"id", "topic_id"} |->
                                CASE k = "id" -> NextId(looked.questions)
                                  [] k = "topic_id" -> topic_id
                                  [] OTHER -> columns[k]]),
              success |-> TRUE, q_type |-> "imported"]

\* the loop over questions_data from question i on: the session after it and
\* the two counters
RECURSIVE DatabaseIntegration_import_questions(_, _, _, _, _, _, _)
DatabaseIntegration_import_questions(session, topic_id, questions_data, i, update_existing, copy_images, raises) ==
    IF i > Len(questions_data)
    THEN [session |-> session, imported_questions |-> 0, updated_questions |-> 0]
    ELSE LET one == DatabaseIntegration_import_single_question(
                        session, topic_id, questions_data[i], update_existing,
                        copy_images, raises)
             rest == DatabaseIntegration_import_questions(
                        one.session, topic_id, questions_data, i + 1,
                        update_existing, copy_images, raises)
         IN  [rest EXCEPT
                !.imported_questions =
                    @ + (IF one.success /\ one.q_type = "imported" THEN 1 ELSE 0),
                !.updated_questions =
                    @ + (IF one.success /\ one.q_type = "updated" THEN 1 ELSE 0)]

\* import_json_to_database(json_data, update_existing, copy_images); structure:
\* what validate_json_structure does, raises: the call that raises, if any
DatabaseIntegration_import_json_to_database(d, json_data, update_existing, copy_images, structure, raises) ==
    LET called == "import_json_to_database"
        failed(log) == Return(d, called, log, Tuple(FALSE, Message("import failed")))
        validation == DatabaseIntegration_validate_json_for_import(d, json_data, structure)
        topic == DatabaseIntegration_import_topic(Session(d), json_data, update_existing,
                                                  raises)
        questions == DatabaseIntegration_import_questions(
                        topic.session, topic.id, Get(json_data, "questions", <<>>), 1,
                        update_existing, copy_images, raises)
        session == questions.session
    IN  IF ~d.db_available
        THEN Return(d, called, <<>>, Tuple(FALSE, Message("database unavailable")))
        ELSE IF ~validation.valid
        THEN Return(d, called, <<>>, Tuple(FALSE, ValidationMessage(validation.errors)))
        ELSE IF raises = "get_session" THEN failed(<<"get_session", "raised">>)
        ELSE IF topic.outcome = "exists"
        THEN Return(d, called, topic.session.log, Tuple(FALSE, Message("topic exists")))
        ELSE IF topic.outcome = "raised" THEN failed(topic.session.log)
        ELSE IF raises = "commit" THEN failed(session_raised(session, "commit").log)
        ELSE Return([d EXCEPT !.topics = session.topics, !.questions = session.questions],
                    called, session_call(session, "commit").log,
                    Tuple(TRUE,
                          [text |-> "imported",
                           errors |-> <<>>,
                           created |-> questions.imported_questions > 0,
                           updated |-> questions.updated_questions > 0]))

\* validate_json_for_import called as a method
DatabaseIntegration_validate(d, json_data, structure) ==
    LET validation == DatabaseIntegration_validate_json_for_import(d, json_data, structure)
    IN  Return(d, "validate_json_for_import", <<>>,
               Tuple(validation.valid, [text |-> "", errors |-> validation.errors]))

\* test_connection(); check: what check_connection() does
DatabaseIntegration_test_connection(d, check) ==
    LET called == "test_connection"
    IN  IF ~d.db_available
        THEN Return(d, called, <<>>, Tuple(FALSE, Message("modules unavailable")))
        ELSE IF check = "raises"
        THEN Return(d, called, <<"check_connection", "raised">>,
                    Tuple(FALSE, Message("connection error")))
        ELSE Return(d, called, <<"check_connection">>,
                    IF check = "true" THEN Tuple(TRUE, Message("connected"))
                    ELSE Tuple(FALSE, Message("not connected")))

\* a method that opens a session and only queries it (its queries are logged
\* as one)
Queried(d, called, raises, failure, result) ==
    IF raises = "get_session" THEN Return(d, called, <<"get_session", "raised">>, failure)
    ELSE IF raises = "query"
    THEN Return(d, called, <<"get_session", "query", "raised">>, failure)
    ELSE Return(d, called, <<"get_session", "query">>, result)

\* get_existing_topics()
DatabaseIntegration_get_existing_topics(d, raises) ==
    IF ~d.db_available THEN Return(d, "get_existing_topics", <<>>, List(<<>>))
    ELSE Queried(d, "get_existing_topics", raises, List(<<>>),
                 List([i \in 1..Len(d.topics) |->
                        [id |-> d.topics[i].id, name |-> d.topics[i].name,
                         description |-> d.topics[i].description]]))

\* _normalize_media_path(media_path): no media file exists in the file system
\* of the model, so the path comes back as str(Path(media_path))
DatabaseIntegration_normalize_media_path(media_path) == media_path

\* get_topic_questions(topic_id)
DatabaseIntegration_get_topic_questions(d, topic_id, raises) ==
    LET OfTopic(question) == question.topic_id = topic_id
        questions == SelectSeq(d.questions, OfTopic)
    IN  IF ~d.db_available THEN Return(d, "get_topic_questions", <<>>, List(<<>>))
        ELSE Queried(d, "get_topic_questions", raises, List(<<>>),
                     List([i \in 1..Len(questions) |->
                            [id |-> questions[i].id,
                             text |-> questions[i].text,
                             options |-> json_loads("options", questions[i].options),
                             correct_answer |->
                                json_loads("correct_answer", questions[i].correct_answer),
                             question_type |-> questions[i].question_type,
                             difficulty |-> questions[i].difficulty,
                             media_url |->
                                IF Truthy(questions[i].media_url)
                                THEN DatabaseIntegration_normalize_media_path(
                                        questions[i].media_url)
                                ELSE questions[i].media_url,
                             explanation |-> questions[i].explanation]]))

\* export_topic_to_json(topic_id)
DatabaseIntegration_export_topic_to_json(d, topic_id, raises) ==
    LET called == "export_topic_to_json"
        topic == Rows(d.topics, topic_id)
        questions == DatabaseIntegration_get_topic_questions(d, topic_id, raises)
    IN  IF ~d.db_available THEN Return(d, called, <<>>, ReturnedNone)
        ELSE IF raises = "get_session"
        THEN Return(d, called, <<"get_session", "raised">>, ReturnedNone)
        ELSE IF raises = "get"
        THEN Return(d, called, <<"get_session", "get", "raised">>, ReturnedNone)
        ELSE IF topic = {} THEN Return(d, called, <<"get_session", "get">>, ReturnedNone)
        ELSE Return(d, called, <<"get_session", "get">> \o questions.log,
                    Dict([topic |-> LET i == CHOOSE i \in topic : TRUE
                                    IN  [id |-> d.topics[i].id, name |-> d.topics[i].name,
                                         description |-> d.topics[i].description],
                          questions |-> questions.result.items]))

\* session.query(...).filter(column == value).count()
Count(rows, column, value) == Cardinality({i \in 1..Len(rows) : rows[i][column] = value})

\* get_database_stats()
DatabaseIntegration_get_database_stats(d, raises) ==
    IF ~d.db_available
    THEN Return(d, "get_database_stats", <<>>, Dict([error |-> "database unavailable"]))
    ELSE Queried(d, "get_database_stats", raises, Dict([error |-> "str(e)"]),
            Dict([topics_count |-> Len(d.topics),
                  questions_count |-> Len(d.questions),
                  question_types |->
                    [q_type \in QuestionTypes |->
                        Count(d.questions, "question_type", q_type)],
                  difficulties |->
                    [difficulty \in 1..5 |-> Count(d.questions, "difficulty", difficulty)],
                  topics_details |->
                    [i \in 1..Len(d.topics) |->
                        [name |-> d.topics[i].name,
                         questions_count |->
                            Count(d.questions, "topic_id", d.topics[i].id)]]]))

\* the loop of backup_database over topics[i..]: the calls made and the
\* topics exported
RECURSIVE DatabaseIntegration_backup_topics(_, _, _, _)
DatabaseIntegration_backup_topics(d, topics, i, raises) ==
    IF i > Len(topics) THEN [log |-> <<>>, topics |-> <<>>]
    ELSE LET topic_data == DatabaseIntegration_export_topic_to_json(d, topics[i].id, raises)
             rest == DatabaseIntegration_backup_topics(d, topics, i + 1, raises)
         IN  [log |-> topic_data.log \o rest.log,
              topics |-> (IF topic_data.result.t = "dict"
                          THEN <<topic_data.result.value>> ELSE <<>>) \o rest.topics]

\* a backup_database without the check of db_available
DatabaseIntegration_backup_unguarded(d, fs, backup_path, writable, raises) ==
    LET topics == DatabaseIntegration_get_existing_topics(d, raises)
        exported == DatabaseIntegration_backup_topics(d, topics.result.items, 1, raises)
        log == topics.log \o exported.log
    IN  IF backup_path \notin writable
        THEN [db |-> Return(d, "backup_database", log \o <<"write", "raised">>,
                            Tuple(FALSE, Message("backup failed"))),
              files |-> fs]
        ELSE [db |-> Return(d, "backup_database", log \o <<"write">>,
                            Tuple(TRUE, Message("backup created"))),
              files |-> [fs EXCEPT ![backup_path] =
                            JsonFile([created_at |-> "now",
                                      topics |-> [i \in 1..Len(exported.topics) |->
                                                    json_dump(exported.topics[i])]])]]

\* backup_database(backup_path); writable: the paths open(path, "w") succeeds for
DatabaseIntegration_backup_database(d, fs, backup_path, writable, raises) ==
    LET called == "backup_database"
        topics == DatabaseIntegration_get_existing_topics(d, raises)
        exported == DatabaseIntegration_backup_topics(d, topics.result.items, 1, raises)
        log == topics.log \o exported.log
    IN  IF ~d.db_available
        THEN [db |-> Return(d, called, <<>>, Tuple(FALSE, Message("database unavailable"))),
              files |-> fs]
        ELSE IF backup_path \notin writable
        THEN [db |-> Return(d, called, log \o <<"write", "raised">>,
                            Tuple(FALSE, Message("backup failed"))),
              files |-> fs]
        ELSE [db |-> Return(d, called, log \o <<"write">>,
                            Tuple(TRUE, Message("backup created"))),
              files |-> [fs EXCEPT ![backup_path] =
                            JsonFile([created_at |-> "now",
                                      topics |-> [i \in 1..Len(exported.topics) |->
                                                    json_dump(exported.topics[i])]])]]

-----------------------------------------------------------------------------
(* database_integration.py: DatabaseDialog.show_import_dialog *)

\* an Import button that starts the import whatever the validation said
DatabaseDialog_perform_unchecked(d, valid, json_data, update_existing, copy_images, structure, raises) ==
    LET imported == DatabaseIntegration_import_json_to_database(
                        d, json_data, update_existing, copy_images, structure, raises)
    IN  [db |-> imported,
         messagebox |-> IF imported.result.ok THEN Dialog("showinfo", "imported")
                        ELSE Dialog("showerror", "import failed")]

\* perform_import and the do_import it schedules; valid: what the dialog got
\* from validate_json_for_import when it was built
DatabaseDialog_perform_import(d, valid, json_data, update_existing, copy_images, structure, raises) ==
    LET imported == DatabaseIntegration_import_json_to_database(
                        d, json_data, update_existing, copy_images, structure, raises)
    IN  IF ~valid THEN [db |-> d, messagebox |-> Dialog("showerror", "data has errors")]
        ELSE [db |-> imported,
              messagebox |-> IF imported.result.ok THEN Dialog("showinfo", "imported")
                             ELSE Dialog("showerror", "import failed")]

\* show_import_dialog(json_data); pressed: the user pressed Import (else Cancel)
DatabaseDialog_show_import_dialog(d, json_data, pressed, update_existing, copy_images, structure, raises) ==
    LET validated == DatabaseIntegration_validate(d, json_data, structure)
    IN  IF ~pressed THEN [db |-> validated, messagebox |-> NoDialog]
        ELSE DatabaseDialog_perform_import(validated, validated.result.ok, json_data,
                                           update_existing, copy_images, structure, raises)

-----------------------------------------------------------------------------
(* What the callers of DatabaseIntegration may do *)

\* a question as the editor writes it, with an image
ImportedQuestion ==
    [id |-> 1, text |-> <<"Q">>, options |-> <<OptionLabel(1), OptionLabel(2)>>,
     correct_answer |-> <<PyInt(0)>>, question_type |-> "single", difficulty |-> 1,
     explanation |-> <<>>, media_url |-> PyStr(1)]

ImportedTopic == [id |-> 1, name |-> <<"T">>, description |-> <<>>]

\* the documents handed to the import: two that _basic_validation accepts,
\* and three it rejects (a question with one option, no questions at all, no
\* "questions" key)
JsonData ==
    {json_load(InitialFiles.b.value),
     [topic |-> ImportedTopic, questions |-> <<ImportedQuestion>>],
     [topic |-> ImportedTopic,
      questions |-> <<[ImportedQuestion EXCEPT !.options = <<OptionLabel(1)>>]>>],
     EmptyDocument,
     json_load(InitialFiles.c.value)}

\* what validate_json_structure may do, when it is called at all
Structures ==
    IF db.DB_AVAILABLE /\ db.VALIDATORS_AVAILABLE THEN {"valid", "invalid", "raises"}
    ELSE {"valid"}

\* the call that raises, when the database is called at all
Raises == IF db.db_available THEN Calls \cup {Never} ELSE {Never}

\* the topic ids a caller may ask for
TopicRowIds == 1..MaxTopics

\* a method of DatabaseIntegration returned the object r; no dialog is shown
Answered(r) ==
    /\ db' = r
    /\ messagebox' = NoDialog
    /\ UNCHANGED <<app, CONFIG_AVAILABLE, self, files>>

\* the outcomes of the environment an import of json_data can meet: none once
\* the validation rejects json_data
Accepted(json_data, structure) ==
    DatabaseIntegration_validate_json_for_import(db, json_data, structure).valid

ImportRaises(json_data, structure) ==
    IF Accepted(json_data, structure) THEN Raises ELSE {Never}

\* the checkboxes of the import: "update existing" matters only when the
\* import gets to the rows, "copy images" only when a question has an image
UpdateExisting(json_data, structure, raises) ==
    IF Accepted(json_data, structure) /\ raises # "get_session" THEN BOOLEAN ELSE {FALSE}

CopyImages(json_data, structure, raises) ==
    IF /\ Accepted(json_data, structure) /\ raises # "get_session"
       /\ \E i \in 1..Len(Get(json_data, "questions", <<>>)) :
            Truthy(Get(json_data.questions[i], "media_url", PyNone))
    THEN BOOLEAN ELSE {TRUE}

\* the failures the import started from the dialog may meet
DialogRaises(json_data, structure) == ImportRaises(json_data, structure) \cap {Never, "commit"}

\* the tables of r are within the bounds
Bounded(r) == Len(r.topics) <= MaxTopics /\ Len(r.questions) <= MaxRows

test_connection ==
    \E check \in (IF db.db_available THEN {"true", "false", "raises"} ELSE {"false"}) :
        Answered(DatabaseIntegration_test_connection(db, check))

get_existing_topics ==
    \E raises \in Raises \cap {Never, "get_session", "query"} :
        Answered(DatabaseIntegration_get_existing_topics(db, raises))

get_topic_questions ==
    \E topic_id \in TopicRowIds, raises \in Raises \cap {Never, "get_session", "query"} :
        Answered(DatabaseIntegration_get_topic_questions(db, topic_id, raises))

export_topic_to_json ==
    \E topic_id \in TopicRowIds, raises \in Raises \ {"flush", "commit"} :
        Answered(DatabaseIntegration_export_topic_to_json(db, topic_id, raises))

get_database_stats ==
    \E raises \in Raises \cap {Never, "get_session", "query"} :
        Answered(DatabaseIntegration_get_database_stats(db, raises))

validate_json_for_import ==
    \E json_data \in JsonData, structure \in Structures :
        Answered(DatabaseIntegration_validate(db, json_data, structure))

import_json_to_database ==
    \E json_data \in JsonData, structure \in Structures :
    \E raises \in ImportRaises(json_data, structure) :
    \E update_existing \in UpdateExisting(json_data, structure, raises) :
    \E copy_images \in CopyImages(json_data, structure, raises) :
        LET r == DatabaseIntegration_import_json_to_database(
                    db, json_data, update_existing, copy_images, structure, raises)
        IN  Bounded(r) /\ Answered(r)

backup_database ==
    \E backup_path \in WritablePaths, writable \in SUBSET WritablePaths,
       raises \in Raises \ {"flush", "commit"} :
        LET r == DatabaseIntegration_backup_database(db, files, backup_path, writable,
                                                     raises)
        IN  /\ db' = r.db
            /\ files' = r.files
            /\ messagebox' = NoDialog
            /\ UNCHANGED <<app, CONFIG_AVAILABLE, self>>

show_import_dialog ==
    \E json_data \in JsonData, structure \in Structures, pressed \in BOOLEAN :
    \E raises \in (IF pressed THEN DialogRaises(json_data, structure) ELSE {Never}) :
    \E update_existing \in (IF pressed THEN UpdateExisting(json_data, structure, raises)
                             ELSE {FALSE}) :
    \E copy_images \in (IF pressed THEN CopyImages(json_data, structure, raises)
                         ELSE {TRUE}) :
        LET r == DatabaseDialog_show_import_dialog(db, json_data, pressed, update_existing,
                                                   copy_images, structure, raises)
        IN  /\ Bounded(r.db)
            /\ db' = r.db
            /\ messagebox' = r.messagebox
            /\ UNCHANGED <<app, CONFIG_AVAILABLE, self, files>>

-----------------------------------------------------------------------------
(* The editor starts *)

Init ==
    /\ app \in {"QuizEditorApp", "EnhancedQuizEditorApp"}
    /\ CONFIG_AVAILABLE \in (IF app = "QuizEditorApp" THEN {FALSE} ELSE BOOLEAN)
    /\ self = NewEditor
    /\ files = InitialFiles
    /\ messagebox = NoDialog
    /\ db = DatabaseIntegration(FALSE, FALSE, FALSE)

\* an editing session; no file can be written (W = {}), so files stays as it is
Next ==
    \/ new_file({})
    \/ open_file({})
    \/ import_from_json(BOOLEAN)
    \/ add_question(MaxQuestions)
    \/ delete_question
    \/ duplicate_question
    \/ on_question_select
    \/ save_question_changes
    \/ add_option
    \/ delete_option

Spec == Init /\ [][Next]_vars

\* a session of opening, changing and saving files
NextFiles ==
    \/ new_file(WritablePaths)
    \/ open_file(WritablePaths)
    \/ save_file(WritablePaths)
    \/ save_file_as(WritablePaths)
    \/ on_closing(WritablePaths)
    \/ edit_topic
    \/ add_question(MaxQuestions)
    \/ on_question_select
    \/ save_question_changes
    \/ cancel_question_changes

SpecFiles == Init /\ [][NextFiles]_vars

\* a session of filling in the form of the questions of one document
NextForm ==
    \/ add_question(1)
    \/ on_question_select
    \/ save_question_changes
    \/ cancel_question_changes
    \/ on_question_type_change
    \/ type_option(MaxOptions + 1)
    \/ click_answer
    \/ add_option
    \/ delete_option
    \/ remove_image

SpecForm == Init /\ [][NextForm]_vars

\* QuizEditorApp alone
InitQuizEditorApp ==
    /\ app = "QuizEditorApp"
    /\ CONFIG_AVAILABLE = FALSE
    /\ self = NewEditor
    /\ files = InitialFiles
    /\ messagebox = NoDialog
    /\ db = DatabaseIntegration(FALSE, FALSE, FALSE)

\* a session of filling in the form of one question of QuizEditorApp, answers
\* tab included
NextAnswers ==
    \/ add_question(1)
    \/ on_question_select
    \/ save_question_changes
    \/ on_question_type_change
    \/ type_question_text
    \/ type_option(MaxTyped)
    \/ toggle_answer(MaxTicked)
    \/ add_to_sequence
    \/ remove_from_sequence
    \/ move_up
    \/ move_down

SpecAnswers == InitQuizEditorApp /\ [][NextAnswers]_vars

\* the database menu alone, for every outcome of the imports of the module
InitDB ==
    /\ app = "EnhancedQuizEditorApp"
    /\ CONFIG_AVAILABLE = FALSE
    /\ self = NewEditor
    /\ files = InitialFiles
    /\ messagebox = NoDialog
    /\ db \in {DatabaseIntegration(modules, config, validators) :
                    modules \in BOOLEAN, config \in BOOLEAN, validators \in BOOLEAN}

NextDB ==
    \/ test_connection
    \/ get_existing_topics
    \/ get_topic_questions
    \/ export_topic_to_json
    \/ get_database_stats
    \/ validate_json_for_import
    \/ import_json_to_database
    \/ backup_database
    \/ show_import_dialog

SpecDB == InitDB /\ [][NextDB]_vars

\* a session of the question operations alone, on the document of a new editor
NextQuestions ==
    \/ add_question(MaxQuestions)
    \/ delete_question
    \/ duplicate_question
    \/ on_question_select
    \/ save_question_changes
    \/ add_option
    \/ delete_option

SpecQuestions == Init /\ [][NextQuestions]_vars

\* a session that only adds, duplicates, deletes and merges questions in
NextIds ==
    \/ add_question(MaxQuestions)
    \/ duplicate_question
    \/ delete_question
    \/ on_question_select
    \/ import_from_json({TRUE})

SpecIds == Init /\ [][NextIds]_vars

-----------------------------------------------------------------------------
(* Properties of the editor *)

\* the dispatch of save_to_file and of the try block of open_file
save_to_file(s, fs, file_path, writable) ==
    IF IsQuizEditorApp THEN QuizEditorApp_save_to_file(s, fs, file_path, writable)
    ELSE Enhanced_save_to_file(s, fs, file_path, writable)

open(s, fs, file_path) ==
    IF IsQuizEditorApp THEN QuizEditorApp_open_file(s, fs, file_path)
    ELSE Enhanced_open(s, fs, file_path)

\* C1: saving the document with save_to_file and then opening the file that was
\* written gives a document whose question list is the one that was saved,
\* element by element and in the same order
C1_SaveThenOpen ==
    HasQuestions(self.data) =>
        \A file_path \in WritablePaths :
            LET saved == save_to_file(self, files, file_path, {file_path})
                opened == open(saved.self, saved.files, file_path)
            IN  /\ HasQuestions(opened.self.data)
                /\ opened.self.data.questions = self.data.questions

\* C1 happens: a document with questions in every answer encoding was saved
\* and the file was opened again
C1_SavedAndOpened ==
    /\ messagebox = Dialog("showinfo", "opened")
    /\ self.current_file_path = SavePath
    /\ HasQuestions(self.data)
    /\ Len(self.data.questions) = MaxQuestions
    /\ \E i \in 1..Len(self.data.questions) :
        \E k \in 1..Len(self.data.questions[i].correct_answer) :
            self.data.questions[i].correct_answer[k].t = "str"

\* C2: after any sequence of add question, add option, delete option, apply
\* changes, duplicate and delete, every question of the document has at least
\* two options
C2_AtLeastTwoOptions ==
    HasQuestions(self.data) =>
        \A i \in 1..Len(self.data.questions) :
            Len(self.data.questions[i].options) >= 2

\* entry is the index of one of the options (a string of digits counts as the
\* number it spells)
ValidAnswer(entry, options) ==
    entry.t \in {"int", "str"} /\ 0 <= entry.v /\ entry.v < Len(options)

\* C3: in the question that apply changes has just stored, every entry of
\* correct_answer is the index of one of its options
C3_StoredAnswersInRange ==
    (/\ messagebox = Dialog("showinfo", "applied")
     /\ ValidIndex(self, self.current_question_index))
    => LET question == self.data.questions[self.current_question_index + 1]
       IN  \A k \in 1..Len(question.correct_answer) :
               ValidAnswer(question.correct_answer[k], question.options)

\* d is an object with the keys "topic" and "questions"
WellFormed(d) == HasTopic(d) /\ HasQuestions(d)

\* C4: the document of the editor is always an object with the keys "topic" and
\* "questions", and so is the content of every file the editor has written
C4_DocumentHasTopicAndQuestions ==
    /\ WellFormed(self.data)
    /\ \A file_path \in WritablePaths :
        files[file_path].kind = "json" => WellFormed(json_load(files[file_path].value))

\* a step of open_file in which the file chosen could not be opened: the try
\* block ended in the error dialog
FailedOpen ==
    \E file_path \in Paths :
        LET r == open(self, files, file_path)
        IN  r.messagebox.kind = "showerror" /\ Returned(r)

\* C5: an open_file that fails (file unreadable, not JSON, or JSON without the
\* keys) shows the error and leaves data, current_file_path and
\* current_question_index as they were
C5_FailedOpenChangesNothing ==
    [][FailedOpen =>
        /\ messagebox'.kind = "showerror"
        /\ self'.data = self.data
        /\ self'.current_file_path = self.current_file_path
        /\ self'.current_question_index = self.current_question_index]_vars

\* C9: in the enhanced editor current_question_index is -1 or an index into
\* the question list
C9_IndexInRange ==
    (~IsQuizEditorApp /\ HasQuestions(self.data)) =>
        \/ self.current_question_index = -1
        \/ ValidIndex(self, self.current_question_index)

\* C10: after any sequence of add_question, duplicate_question, delete_question
\* and merge imports that starts from the empty document, no two questions have
\* the same id
C10_UniqueIds ==
    HasQuestions(self.data) =>
        \A i, k \in 1..Len(self.data.questions) :
            (/\ i # k
             /\ "id" \in DOMAIN self.data.questions[i]
             /\ "id" \in DOMAIN self.data.questions[k])
            => self.data.questions[i].id # self.data.questions[k].id

\* the dispatch of save_question_changes
apply_changes(s) ==
    IF IsQuizEditorApp THEN QuizEditorApp_save_question_changes(s)
    ELSE Enhanced_save_question_changes(s)

\* a step of save_question_changes that stored the form in the document
Applied ==
    /\ Running
    /\ ValidIndex(self, self.current_question_index)
    /\ apply_changes(self).messagebox = Dialog("showinfo", "applied")
    /\ Returned(apply_changes(self))

\* C11: a step of save_question_changes that stores the form keeps the number
\* of questions, leaves every other question as it was, and the question it
\* replaced keeps its place and the id it had
C11_ApplyKeepsIdAndOthers ==
    [][Applied =>
        LET index == self.current_question_index + 1
            before == self.data.questions
            after == self'.data.questions
        IN  /\ Len(after) = Len(before)
            /\ \A k \in 1..Len(before) : k # index => after[k] = before[k]
            /\ "id" \in DOMAIN before[index] =>
                    /\ "id" \in DOMAIN after[index]
                    /\ after[index].id = before[index].id]_vars

\* the option entries of the form that are not blank
NonBlank(s) == {i \in 1..Len(s.options_list) : strip(s.options_list[i]) # <<>>}

\* the form of s has no correct answer: no box is ticked (multiple), the
\* order is empty (sequence)
NoCorrectAnswer(s) ==
    \/ s.question_type = "multiple" /\ \A i \in 1..Len(s.answer_vars) : ~s.answer_vars[i]
    \/ s.question_type = "sequence" /\ s.sequence_order = <<>>

\* the form of s fails one of the checks C12 lists
FormInvalid(s) ==
    \/ \A i \in 1..Len(s.question_text) : s.question_text[i] \in Whitespace
    \/ Cardinality(NonBlank(s)) < 2
    \/ NoCorrectAnswer(s)
    \/ s.question_type = "sequence" /\ Len(s.sequence_order) # Cardinality(NonBlank(s))

\* C12: in QuizEditorApp, when no question is selected or the form fails a
\* check (empty text, fewer than 2 non-blank options, no correct answer, a
\* sequence whose order has not as many entries as there are options),
\* save_question_changes shows a message and leaves the document as it is; it
\* reports success and replaces the question only when all checks pass
C12_InvalidFormChangesNothing ==
    IsQuizEditorApp =>
        LET applied == QuizEditorApp_save_question_changes(self)
            success == Dialog("showinfo", "applied")
        IN  /\ (self.current_question_index < 0 \/ FormInvalid(self)) =>
                /\ applied.messagebox.kind \in {"showinfo", "showerror"}
                /\ applied.messagebox # success
                /\ applied.self.data = self.data
            /\ (applied.messagebox = success \/ applied.self.data # self.data) =>
                /\ self.current_question_index >= 0
                /\ ~FormInvalid(self)
                /\ applied.messagebox = success

\* C12 happens: save_question_changes has just refused a sequence question
\* whose order holds some of the options, but not all
C12_Rejected ==
    /\ IsQuizEditorApp
    /\ messagebox.kind = "showerror"
    /\ ValidIndex(self, self.current_question_index)
    /\ self.question_type = "sequence"
    /\ self.sequence_order # <<>>
    /\ Cardinality(NonBlank(self)) >= 2
    /\ Len(self.sequence_order) < Cardinality(NonBlank(self))

\* order holds each of the indices 0..n-1 exactly once (a string of digits
\* counts as the number it spells)
IsPermutation(order, n) ==
    /\ Len(order) = n
    /\ \A index \in 0..(n - 1) : \E k \in 1..Len(order) : order[k].v = index
    /\ \A k \in 1..Len(order) : order[k].t \in {"int", "str"}

\* C13: in QuizEditorApp the order of the sequence editor never holds an option
\* twice and holds only indices of the options the editor shows, and a sequence
\* question that save_question_changes has accepted has a correct_answer that
\* is a permutation of all the indices of the options stored with it
C13_SequenceIsPermutation ==
    IsQuizEditorApp =>
        /\ self.answers_shown = "sequence" =>
            /\ \A i, k \in 1..Len(self.sequence_order) :
                    i # k => self.sequence_order[i] # self.sequence_order[k]
            /\ \A i \in 1..Len(self.sequence_order) :
                    self.sequence_order[i] \in 0..(self.options_shown - 1)
        /\ (/\ messagebox = Dialog("showinfo", "applied")
            /\ ValidIndex(self, self.current_question_index)
            /\ self.data.questions[self.current_question_index + 1].question_type
                    = "sequence")
           => LET question == self.data.questions[self.current_question_index + 1]
              IN  IsPermutation(question.correct_answer, Len(question.options))

\* the dispatch of delete_question
delete(s, yes) ==
    IF IsQuizEditorApp THEN QuizEditorApp_delete_question(s, yes)
    ELSE Enhanced_delete_question(s, yes)

C15_DuplicateAppendsCopy ==
    (~IsQuizEditorApp /\ HasQuestions(self.data)) =>
        LET duplicated == Enhanced_duplicate_question(self).self
            index == self.current_question_index
            before == self.data.questions
            after == duplicated.data.questions
        IN  /\ ValidIndex(self, index) =>
                LET original == before[index + 1]
                    copy == after[Len(after)]
                IN  /\ Len(after) = Len(before) + 1
                    /\ \A k \in 1..Len(before) : after[k] = before[k]
                    /\ DOMAIN copy = DOMAIN original \cup {"id"}
                    /\ copy.id = Len(before) + 1
                    /\ copy.text = <<"[Copy]", " ">> \o original.text
                    /\ \A key \in DOMAIN original \ {"id", "text"} :
                            copy[key] = original[key]
                    /\ [duplicated.data EXCEPT !.questions = before] = self.data
            /\ index < 0 => duplicated.data = self.data

\* C15 happens: the list ends with the copy of a question that is still there
C15_Duplicated ==
    /\ ~IsQuizEditorApp
    /\ HasQuestions(self.data)
    /\ Len(self.data.questions) = 2
    /\ self.data.questions[2].text = <<"[Copy]", " ">> \o self.data.questions[1].text
    /\ self.data.questions[2].id = 2

\* what the operations that change the document return, for every input
DocumentChanges(s) ==
    {Enhanced_add_question(s), Enhanced_duplicate_question(s),
     Enhanced_save_question_changes(s)}
    \cup {Enhanced_delete_question(s, yes) : yes \in BOOLEAN}
    \cup {Enhanced_edit_topic(s, topic_name) : topic_name \in TopicNames}

\* the step is a save_to_file, an open_file or an import_from_json that
\* succeeded (it ended with its success dialog), or a new_file
SavedOrLoaded ==
    \/ messagebox' \in {Dialog("showinfo", "saved"), Dialog("showinfo", "opened"),
                        Dialog("showinfo", "imported")}
    \/ /\ self'.data = EmptyDocument
       /\ self'.current_file_path = None
       /\ self'.current_question_index = -1

\* C16: in the enhanced editor an operation that changes the document (add,
\* delete, duplicate, apply changes, edit topic) leaves unsaved_changes True;
\* a save_to_file that fails leaves unsaved_changes as it was; and
\* unsaved_changes goes from True to False only in a step that is a successful
\* save_to_file, open_file or import_from_json, or a new_file
C16_UnsavedUntilSavedOrLoaded ==
    [][~IsQuizEditorApp =>
        /\ \A changed \in DocumentChanges(self) :
                changed.self.data # self.data => changed.self.unsaved_changes
        /\ \A file_path \in Paths :
                Enhanced_save_to_file(self, files, file_path, {}).self.unsaved_changes
                    = self.unsaved_changes
        /\ (self.unsaved_changes /\ ~self'.unsaved_changes) => SavedOrLoaded]_vars

\* C17: in the enhanced editor, while unsaved_changes is False and
\* current_file_path is set, the document is the content of the file at
\* current_file_path (no one else writes the files, so that content is what
\* the editor last wrote to or read from the file)
C17_SavedDocumentIsOnDisk ==
    (/\ ~IsQuizEditorApp
     /\ ~self.unsaved_changes
     /\ self.current_file_path # None)
    => /\ files[self.current_file_path].kind = "json"
       /\ self.data = json_load(files[self.current_file_path].value)

\* the operation that asked returned r without doing anything: the window is
\* open and the document, current_file_path and unsaved_changes are as before
Aborted(r) ==
    /\ ~r.self.destroyed
    /\ r.self.data = self.data
    /\ r.self.current_file_path = self.current_file_path
    /\ r.self.unsaved_changes = self.unsaved_changes
    /\ r.files = files

\* r is what an operation returned that wrote the document to some file
SavedFirst(r) == \E file_path \in Paths : r.files[file_path] = JsonFile(json_dump(self.data))

\* on_closing, new_file and open_file went on after the prompt
Closed(r) == r.self.destroyed
Reset(r) == r.self.data = EmptyDocument /\ r.self.current_file_path = None
Opening(r, open_path) ==
    open_path # NoPath =>
        r.messagebox \in {Dialog("showinfo", "opened"), Dialog("showerror", "open failed")}

\* C18: with unsaved changes, the answer Cancel to the prompt of on_closing,
\* new_file and open_file aborts the operation (window open, document,
\* current_file_path and unsaved_changes unchanged); the answer No goes on
\* without writing a file; the answer Yes goes on after the document was
\* written to a file
C18_PromptAnswers ==
    (~IsQuizEditorApp /\ Running /\ self.unsaved_changes) =>
        \A file_path \in SavePaths, writable \in SUBSET WritablePaths,
           open_path \in OpenPaths :
            LET closing(answer) ==
                    Enhanced_on_closing(self, files, answer, file_path, writable)
                new(answer) == Enhanced_new_file(self, files, answer, file_path, writable)
                opening(answer) ==
                    Enhanced_open_file(self, files, answer, file_path, writable, open_path)
            IN  /\ Aborted(closing("cancel"))
                /\ Aborted(new("cancel"))
                /\ Aborted(opening("cancel"))
                /\ Closed(closing("no")) /\ closing("no").files = files
                /\ Reset(new("no")) /\ new("no").files = files
                /\ Opening(opening("no"), open_path) /\ opening("no").files = files
                /\ Closed(closing("yes")) /\ SavedFirst(closing("yes"))
                /\ Reset(new("yes")) /\ SavedFirst(new("yes"))
                /\ Opening(opening("yes"), open_path) /\ SavedFirst(opening("yes"))

-----------------------------------------------------------------------------
(* Properties of the database integration *)

\* C6: while db_available is false, test_connection, import_json_to_database
\* and backup_database return (False, message), get_existing_topics and
\* get_topic_questions return [], export_topic_to_json returns None and
\* get_database_stats returns a dict with the key "error"; none of them opens
\* a session or writes a file
C6_UnavailableDatabase ==
    ~db.db_available =>
        /\ {"get_session", "write"} \cap Range(db.log) = {}
        /\ files = InitialFiles
        /\ db.called \in {"test_connection", "import_json_to_database", "backup_database"}
            => (db.result.t = "tuple" /\ ~db.result.ok)
        /\ db.called \in {"get_existing_topics", "get_topic_questions"}
            => db.result = List(<<>>)
        /\ db.called = "export_topic_to_json" => db.result = ReturnedNone
        /\ db.called = "get_database_stats"
            => (db.result.t = "dict" /\ "error" \in DOMAIN db.result.value)

\* C6 happens: backup_database was called without a database
C6_BackupRefused ==
    /\ ~db.db_available
    /\ db.called = "backup_database"
    /\ db.result = Tuple(FALSE, Message("database unavailable"))

\* number of commits among the calls of log
Commits(log) == Cardinality({i \in 1..Len(log) : log[i] = "commit"})

\* the last method that returned is import_json_to_database
Imported == db.called = "import_json_to_database"

\* the calls of log end with a commit that returned
EndsWithCommit(log) == log # <<>> /\ log[Len(log)] = "commit"

\* the calls of log end with a commit that raised
EndsWithFailedCommit(log) ==
    Len(log) >= 2 /\ log[Len(log) - 1] = "commit" /\ log[Len(log)] = "raised"

\* C7 as stated: a successful import_json_to_database issues exactly one
\* commit, after the topic and all the questions were processed, and an
\* import that returns (False, ...) issues no commit
C7_OneCommitOnSuccessOnly ==
    Imported =>
        IF db.result.ok THEN Commits(db.log) = 1 /\ EndsWithCommit(db.log)
        ELSE Commits(db.log) = 0

\* C7 amended: a successful import_json_to_database issues exactly one commit,
\* as its last call, after the topic and all the questions were processed; an
\* import that returns (False, ...) issues no commit, or issues that one
\* commit as its last call and the commit raises
C7_OneCommitUnlessItRaised ==
    Imported =>
        IF db.result.ok THEN Commits(db.log) = 1 /\ EndsWithCommit(db.log)
        ELSE \/ Commits(db.log) = 0
             \/ Commits(db.log) = 1 /\ EndsWithFailedCommit(db.log)

\* C7 happens: an import that added a topic and a question has committed
C7_Committed ==
    /\ Imported /\ db.result.ok
    /\ Commits(db.log) = 1
    /\ "add" \in Range(db.log)
    /\ db.questions # <<>>

\* the message of the import of a rejected json_data: the list of the errors,
\* always (as C8 states it) or only when there is a database
RejectionMessage(validation, always) ==
    IF always \/ db.db_available THEN ValidationMessage(validation.errors)
    ELSE Message("database unavailable")

\* what a rejected json_data leads to, whatever the checkboxes and the
\* failures of the database: the import returns (False, message), leaves the
\* tables alone and makes no call, and the Import button of the dialog does not
\* start the import
Rejection(always) ==
    \A json_data \in JsonData, structure \in Structures, raises \in Raises,
       update_existing \in BOOLEAN, copy_images \in BOOLEAN :
        LET validation ==
                DatabaseIntegration_validate_json_for_import(db, json_data, structure)
            imported == DatabaseIntegration_import_json_to_database(
                            db, json_data, update_existing, copy_images, structure, raises)
            dialog == DatabaseDialog_show_import_dialog(
                            db, json_data, TRUE, update_existing, copy_images, structure,
                            raises)
        IN  ~validation.valid =>
                /\ imported.result.t = "tuple" /\ ~imported.result.ok
                /\ imported.result.message = RejectionMessage(validation, always)
                /\ imported.topics = db.topics /\ imported.questions = db.questions
                /\ imported.log = <<>>
                /\ dialog.db.called # "import_json_to_database"
                /\ dialog.messagebox.kind = "showerror"
                /\ dialog.db.topics = db.topics /\ dialog.db.questions = db.questions

\* C8 as stated: when validate_json_for_import rejects a document,
\* import_json_to_database returns (False, message listing the errors), no
\* topic row and no question row is created or modified, and the import
\* dialog refuses to start the import
C8_RejectedDocumentIsNotImported == Rejection(TRUE)

\* C8 amended: as C8, but the message lists the errors only when db_available
\* is true; when it is false the message says that the database is unavailable
C8_RejectedUnlessUnavailable == Rejection(FALSE)

\* C8 happens: an import into an available database was rejected by the
\* validation
C8_Rejected ==
    /\ Imported /\ db.db_available
    /\ ~db.result.ok
    /\ db.result.message.text = "validation errors"
    /\ db.result.message.errors # <<>>
    /\ db.log = <<>>

\* a second question, of another type
SecondQuestion ==
    [id |-> 2, text |-> <<"R">>, options |-> <<OptionLabel(1), OptionLabel(2)>>,
     correct_answer |-> <<PyInt(0), PyInt(1)>>, question_type |-> "multiple",
     difficulty |-> 3, explanation |-> <<"E">>, media_url |-> NoImage]

\* the valid documents of the round trip: the one of the file b, and one as
\* the editor numbers it, with two questions of ids 1 and 2
RoundTripData ==
    {json_load(InitialFiles.b.value),
     [topic |-> [name |-> <<"T">>, description |-> <<"D">>],
      questions |-> <<ImportedQuestion, SecondQuestion>>]}

\* the fields of a question that the round trip keeps
RoundTripFields ==
    {"text", "options", "correct_answer", "question_type", "difficulty", "explanation"}

\* exported is json_data as far as the round trip goes
SameDocument(exported, json_data) ==
    /\ exported.topic.name = json_data.topic.name
    /\ exported.topic.description = json_data.topic.description
    /\ Len(exported.questions) = Len(json_data.questions)
    /\ \A i \in 1..Len(json_data.questions) :
        \A field \in RoundTripFields :
            exported.questions[i][field] = json_data.questions[i][field]

\* C19: when import_json_to_database has imported a valid document as a new
\* topic, export_topic_to_json of that topic gives the name and the
\* description of the topic of the document and, question by question, its
\* text, options, correct_answer, question_type, difficulty and explanation;
\* this for every state of the tables, both settings of the sessions, and
\* when no call on the database raises
C19_ImportThenExport ==
    db.db_available =>
        \A json_data \in RoundTripData, structure \in Structures \ {"invalid"},
           autoflush \in BOOLEAN, update_existing \in BOOLEAN, copy_images \in BOOLEAN :
            LET database == [db EXCEPT !.autoflush = autoflush]
                imported == DatabaseIntegration_import_json_to_database(
                                database, json_data, update_existing, copy_images,
                                structure, Never)
                topic_id == NextId(db.topics)
                exported == DatabaseIntegration_export_topic_to_json(
                                imported, topic_id, Never)
            IN  (/\ Rows(db.topics, Get(json_data.topic, "id", 0)) = {}
                 /\ imported.result.ok)
                => /\ exported.result.t = "dict"
                   /\ SameDocument(exported.result.value, json_data)

=============================================================================
